---- MODULE Spec2Model ----
(***************************************************************************)
(* FullSnap: a model of the capture planner (service worker), the          *)
(* viewport stitcher (offscreen document), the capture store and the       *)
(* whitespace-aware PDF paginator (viewer).                                *)
(*                                                                         *)
(* Numbers.  CSS pixels, physical pixels and raster rows are integers.     *)
(* The native devicePixelRatio is carried in units of 1/(10*Milli), the    *)
(* effective scale (rounded by the code to 3 decimals) in units of         *)
(* 1/Milli.  Real-valued intermediate results of the code are carried as   *)
(* exact fractions <<numerator, denominator>>.                             *)
(***************************************************************************)
EXTENDS Integers, Sequences, FiniteSets, TLC

VARIABLES
  \* service worker: captureFullPage's locals and the module-level state
  metrics, positions, strategy, segments, swPc,
  captureId, didInjectContentScript, segmentIndex, posIndex, result,
  failedStep, storedCount, pendingCaptureId, sessionPending,
  \* CaptureStore (IndexedDB): object stores captures, segments, state
  storeCaptures, storeSegments, storePending,
  \* offscreen document: module-level canvas state, and the requests answered
  canvas, canvasStrategy, stitchLog,
  \* viewer: appendCanvasToPagedPdf's locals
  raster, allBands, page, prevCutY, slices, pdfPc,
  \* content script: window.__fullsnap_injected, the onMessage listeners
  \* registered on the page with their closures, window.scrollY, the
  \* service worker's position in its messages to the tab, the last message
  fullsnapInjected, listeners, windowScrollY, csPc, handled,
  \* captureWithRetry: the clock, the module-level lastCaptureTime, the
  \* times of the last two captureVisibleTab calls, the invocations
  now, lastCaptureTime, tabCalls, retry,
  \* overlapping captureFullPage invocations and the requests the offscreen
  \* document has processed for them
  tasks, offLog,
  \* viewer: loadInitialCapture's position and the viewer's captureId
  viewerPc, viewerCaptureId,
  \* the answer of the last DELETE_CAPTURE request, until it is delivered
  deleteReply,
  \* the captured page: the inline visibility of its fixed element, the
  \* scrollbar-hiding style elements in its head, and the captureFullPage
  \* invocations that work on the tab
  elementVisibility, styleElements, runs,
  \* AnnotationEngine: its two stacks and the operations applied so far
  actions, redoStack, history

swVars    == <<metrics, positions, strategy, segments, swPc, captureId,
               didInjectContentScript, segmentIndex, posIndex, result,
               failedStep, storedCount, pendingCaptureId, sessionPending>>
storeVars == <<storeCaptures, storeSegments, storePending>>
offVars   == <<canvas, canvasStrategy, stitchLog>>
pdfVars   == <<raster, allBands, page, prevCutY, slices, pdfPc>>
csVars    == <<fullsnapInjected, listeners, windowScrollY, csPc, handled>>
thVars    == <<now, lastCaptureTime, tabCalls, retry>>
ovVars    == <<tasks, offLog>>
vwVars    == <<viewerPc, viewerCaptureId>>
dlVars    == <<deleteReply>>
clVars    == <<elementVisibility, styleElements, runs>>
anVars    == <<actions, redoStack, history>>
lateVars  == <<dlVars, clVars, anVars>>
extVars   == <<csVars, thVars, ovVars, vwVars, lateVars>>
vars      == <<swVars, storeVars, offVars, pdfVars, extVars>>

-----------------------------------------------------------------------------
(* Arithmetic of the JavaScript code                                       *)

\* Math.pow(10, decimals) with decimals = 3: the unit of a rounded scale.
Milli == 1000

Max(a, b) == IF a >= b THEN a ELSE b
Min(a, b) == IF a <= b THEN a ELSE b

\* Math.round of the non-negative fraction n/d: floor(n/d + 1/2).
MathRound(n, d) == (2 * n + d) \div (2 * d)

\* Math.ceil of the non-negative fraction n/d.
MathCeil(n, d) == (n + d - 1) \div d

\* Fractions <<n, d>> with d > 0.
RatLeq(a, b) == a[1] * b[2] <= b[1] * a[2]
RatMin(a, b) == IF RatLeq(a, b) THEN a ELSE b
RatMax(a, b) == IF RatLeq(a, b) THEN b ELSE a

\* roundTo(value, 3) of the fraction v, in units of 1/Milli.
roundTo(v) == MathRound(v[1] * Milli, v[2])

\* Naturals beyond 32 bits (the code computes in doubles): limbs to the base
\* 10^4, most significant first.
LimbBase == 10 * Milli

RECURSIVE BigOfInt(_)
BigOfInt(n) ==
  IF n < LimbBase THEN <<n>> ELSE BigOfInt(n \div LimbBase) \o <<n % LimbBase>>

RECURSIVE BigMulStep(_, _, _, _)
BigMulStep(a, m, i, carry) ==
  IF i = 0
    THEN IF carry = 0 THEN <<>> ELSE BigOfInt(carry)
    ELSE LET t == a[i] * m + carry
         IN  BigMulStep(a, m, i - 1, t \div LimbBase) \o <<t % LimbBase>>

BigMulSmall(a, m) == BigMulStep(a, m, Len(a), 0)

RECURSIVE BigDivStep(_, _, _, _)
BigDivStep(a, d, i, rem) ==
  IF i > Len(a)
    THEN <<>>
    ELSE LET t == rem * LimbBase + a[i]
         IN  <<t \div d>> \o BigDivStep(a, d, i + 1, t % d)

\* floor(a / d) for 0 < d < 2^31 / LimbBase.
BigDivSmall(a, d) == BigDivStep(a, d, 1, 0)

RECURSIVE BigStrip(_)
BigStrip(a) == IF Len(a) > 1 /\ a[1] = 0 THEN BigStrip(Tail(a)) ELSE a

RECURSIVE BigToIntStep(_, _, _)
BigToIntStep(a, i, acc) ==
  IF i > Len(a) THEN acc ELSE BigToIntStep(a, i + 1, acc * LimbBase + a[i])

BigToInt(a) == BigToIntStep(a, 1, 0)

RECURSIVE BigLeqStep(_, _, _)
BigLeqStep(a, b, i) ==
  IF i > Len(a) THEN TRUE
  ELSE IF a[i] < b[i] THEN TRUE
  ELSE IF a[i] > b[i] THEN FALSE
  ELSE BigLeqStep(a, b, i + 1)

BigLeq(x, y) ==
  LET a == BigStrip(x)
      b == BigStrip(y)
  IN  IF Len(a) # Len(b) THEN Len(a) < Len(b) ELSE BigLeqStep(a, b, 1)

-----------------------------------------------------------------------------
(* shared/constants.js                                                     *)

MAX_CANVAS_DIMENSION == 16384
MAX_CANVAS_AREA      == 100000000
STITCH_CONCURRENCY   == 1

-----------------------------------------------------------------------------
(* service-worker.js: the planner                                          *)

RECURSIVE ScrollLoop(_, _, _, _)
ScrollLoop(y, acc, totalHeight, viewportHeight) ==
  IF y + viewportHeight <= totalHeight
    THEN ScrollLoop(y + viewportHeight, Append(acc, y), totalHeight, viewportHeight)
    ELSE <<acc, y>>

\* [...new Set(s)]: the first occurrence of every element, in insertion order.
RECURSIVE Dedup(_)
Dedup(s) ==
  IF s = <<>> THEN <<>>
  ELSE LET front == Dedup(SubSeq(s, 1, Len(s) - 1))
           last  == s[Len(s)]
       IN  IF \E k \in DOMAIN front : front[k] = last THEN front ELSE Append(front, last)

\* .sort((a, b) => a - b)
RECURSIVE SortAsc(_)
SortAsc(s) ==
  IF s = <<>> THEN <<>>
  ELSE LET rest == SortAsc(Tail(s))
           x    == s[1]
           lo   == SelectSeq(rest, LAMBDA v : v <= x)
           hi   == SelectSeq(rest, LAMBDA v : v > x)
       IN  lo \o <<x>> \o hi

\* Variant: the tail offset is pushed whenever y <= totalHeight and the
\* result is returned without de-duplication.
calculateScrollPositions_NoDedup(totalHeight, viewportHeight) ==
  IF totalHeight <= viewportHeight THEN <<0>>
  ELSE LET loop == ScrollLoop(0, <<>>, totalHeight, viewportHeight)
       IN  IF loop[2] <= totalHeight
             THEN Append(loop[1], totalHeight - viewportHeight)
             ELSE loop[1]

\* Variant: the tail offset is never pushed.
calculateScrollPositions_NoTail(totalHeight, viewportHeight) ==
  IF totalHeight <= viewportHeight THEN <<0>>
  ELSE ScrollLoop(0, <<>>, totalHeight, viewportHeight)[1]

\* Variant: the tail offset is the loop's y, not totalHeight - viewportHeight.
calculateScrollPositions_TailAtY(totalHeight, viewportHeight) ==
  IF totalHeight <= viewportHeight THEN <<0>>
  ELSE LET loop == ScrollLoop(0, <<>>, totalHeight, viewportHeight)
       IN  IF loop[2] < totalHeight THEN Append(loop[1], loop[2]) ELSE loop[1]

calculateScrollPositions(totalHeight, viewportHeight) ==
  IF totalHeight <= viewportHeight THEN <<0>>
  ELSE LET loop == ScrollLoop(0, <<>>, totalHeight, viewportHeight)
           pushed == IF loop[2] < totalHeight
                       THEN Append(loop[1], totalHeight - viewportHeight)
                       ELSE loop[1]
       IN  SortAsc(Dedup(pushed))

\* metrics.devicePixelRatio || 1, in units of 1/(10*Milli)
NativeDpr(m) == IF m.devicePixelRatio = 0 THEN 10 * Milli ELSE m.devicePixelRatio

\* Variant: a lower clamp of 1 in place of 0.5.
effectiveDprOf_FloorOne(dpr, viewportWidth) ==
  roundTo(RatMax(<<1, 1>>,
                 RatMin(<<dpr, 10 * Milli>>, <<MAX_CANVAS_DIMENSION, viewportWidth>>)))

\* roundTo(Math.max(0.5, Math.min(dpr, maxDprByWidth)), 3), in units of 1/Milli
effectiveDprOf(dpr, viewportWidth) ==
  roundTo(RatMax(<<1, 2>>,
                 RatMin(<<dpr, 10 * Milli>>, <<MAX_CANVAS_DIMENSION, viewportWidth>>)))

\* Math.floor(MAX_CANVAS_AREA / (viewportWidth * effectiveDpr * effectiveDpr))
maxHeightByAreaOf(viewportWidth, effectiveDpr) ==
  LET area == BigMulSmall(BigMulSmall(BigOfInt(MAX_CANVAS_AREA), Milli), Milli)
  IN  BigToInt(BigDivSmall(BigDivSmall(BigDivSmall(area, viewportWidth),
                                       effectiveDpr), effectiveDpr))

computeCaptureStrategy(m) ==
  LET dpr            == NativeDpr(m)
      viewportWidth  == Max(1, IF m.viewportWidth = 0 THEN 1 ELSE m.viewportWidth)
      viewportHeight == Max(1, IF m.viewportHeight = 0 THEN 1 ELSE m.viewportHeight)
      effectiveDpr   == effectiveDprOf(dpr, viewportWidth)
      maxHeightByDimension == (MAX_CANVAS_DIMENSION * Milli) \div effectiveDpr
      maxHeightByArea      == maxHeightByAreaOf(viewportWidth, effectiveDpr)
      maxSegmentHeightCss  ==
        Max(viewportHeight, Min(maxHeightByDimension, maxHeightByArea))
  IN  IF effectiveDpr <= 0
        THEN [error |-> "Unable to compute safe capture scale",
              effectiveDpr |-> 0, maxSegmentHeightCss |-> 0, viewportsPerSegment |-> 0]
      ELSE IF maxSegmentHeightCss <= 0
        THEN [error |-> "Page is too large to capture with current browser limits",
              effectiveDpr |-> 0, maxSegmentHeightCss |-> 0, viewportsPerSegment |-> 0]
      ELSE [error |-> "",
            effectiveDpr |-> effectiveDpr,
            maxSegmentHeightCss |-> maxSegmentHeightCss,
            viewportsPerSegment |-> Max(1, maxSegmentHeightCss \div viewportHeight)]

RECURSIVE SegmentLoop(_, _, _, _, _, _)
SegmentLoop(i, acc, pos, viewportHeight, totalHeight, viewportsPerSegment) ==
  IF i >= Len(pos) THEN acc
  ELSE LET slice  == SubSeq(pos, i + 1, Min(Len(pos), i + viewportsPerSegment))
           startY == slice[1]
           endY   == Min(totalHeight, slice[Len(slice)] + viewportHeight)
       IN  SegmentLoop(i + viewportsPerSegment,
                       Append(acc, [index |-> Len(acc),
                                    startPositionIndex |-> i,
                                    positions |-> slice,
                                    startY |-> startY,
                                    endY |-> endY,
                                    height |-> endY - startY]),
                       pos, viewportHeight, totalHeight, viewportsPerSegment)

\* Variant: the loop starts at the second position.
buildCaptureSegments_FromSecond(pos, viewportHeight, totalHeight, viewportsPerSegment) ==
  SegmentLoop(1, <<>>, pos, viewportHeight, totalHeight, viewportsPerSegment)

buildCaptureSegments(pos, viewportHeight, totalHeight, viewportsPerSegment) ==
  SegmentLoop(0, <<>>, pos, viewportHeight, totalHeight, viewportsPerSegment)

NoStrategy ==
  [error |-> "", effectiveDpr |-> 0, maxSegmentHeightCss |-> 0, viewportsPerSegment |-> 0]

-----------------------------------------------------------------------------
(* Idle values of the four parts                                           *)

NoMetrics ==
  [totalHeight |-> 0, viewportHeight |-> 0, viewportWidth |-> 0, devicePixelRatio |-> 0]

NoCanvas ==
  [exists |-> FALSE, ctx |-> FALSE, width |-> 0, height |-> 0,
   drawOps |-> <<>>, lastDrawnBottomY |-> 0]

NoCanvasStrategy ==
  [exists |-> FALSE, scale |-> 0, canvasWidth |-> 0, canvasHeight |-> 0]

NoRaster ==
  [width |-> 0, height |-> 0, pageSize |-> "a4", footerLines |-> 0,
   readable |-> TRUE, blankRuns |-> {}]

SwIdle ==
  /\ metrics = NoMetrics
  /\ positions = <<>>
  /\ strategy = NoStrategy
  /\ segments = <<>>
  /\ swPc = "idle"
  /\ captureId = 0
  /\ didInjectContentScript = FALSE
  /\ segmentIndex = 0
  /\ posIndex = 0
  /\ result = "none"
  /\ failedStep = "none"
  /\ storedCount = 0
  /\ pendingCaptureId = 0
  /\ sessionPending = 0

StoreIdle ==
  /\ storeCaptures = {}
  /\ storeSegments = {}
  /\ storePending = 0

OffIdle ==
  /\ canvas = NoCanvas
  /\ canvasStrategy = NoCanvasStrategy
  /\ stitchLog = [prepared |-> FALSE, rerun |-> FALSE, width |-> 0,
                  height |-> 0, devicePixelRatio |-> 0, stitches |-> <<>>]

\* allBands before any export: null
NoBands == [isNull |-> TRUE, bands |-> <<>>]

PdfIdle ==
  /\ raster = NoRaster
  /\ allBands = NoBands
  /\ page = 0
  /\ prevCutY = 0
  /\ slices = <<>>
  /\ pdfPc = "idle"

\* no message has been sent to the tab
NoMessage == [action |-> "none", handlers |-> 0]

CsIdle ==
  /\ fullsnapInjected = FALSE
  /\ listeners = <<>>
  /\ windowScrollY = 0
  /\ csPc = "idle"
  /\ handled = NoMessage

ThIdle ==
  /\ now = 0
  /\ lastCaptureTime = 0
  /\ tabCalls = <<>>
  /\ retry = <<>>

OvIdle ==
  /\ tasks = <<>>
  /\ offLog = <<>>

VwIdle ==
  /\ viewerPc = "closed"
  /\ viewerCaptureId = 0

\* no DELETE_CAPTURE request is being answered
NoReply == [id |-> 0]

DlIdle == deleteReply = NoReply

ClIdle ==
  /\ elementVisibility = ""
  /\ styleElements = 0
  /\ runs = <<>>

AnIdle ==
  /\ actions = <<>>
  /\ redoStack = <<>>
  /\ history = <<>>

LateIdle ==
  /\ DlIdle
  /\ ClIdle
  /\ AnIdle

ExtIdle ==
  /\ CsIdle
  /\ ThIdle
  /\ OvIdle
  /\ VwIdle
  /\ LateIdle

-----------------------------------------------------------------------------
(* SpecPlan: the planner's three functions applied to bounded page metrics *)

MaxTotalHeight    == 12
MaxViewportHeight == 5

PlanGeometry ==
  ((1..MaxTotalHeight) \X (1..MaxViewportHeight))
    \cup {<<900, 1080>>, <<2500, 1000>>, <<9000, 3000>>, <<20000, 7000>>}

PlanWidths == {1, 1280, 1920, 7000, 16384, 40000}

\* native devicePixelRatio values, in units of 1/(10*Milli)
PlanDprs == {2500, 10000, 10005, 12500, 20000, 30000}

PlanInputs ==
  {[totalHeight |-> g[1], viewportHeight |-> g[2],
    viewportWidth |-> w, devicePixelRatio |-> d] :
     g \in PlanGeometry, w \in PlanWidths, d \in PlanDprs}

InitPlan ==
  /\ metrics \in PlanInputs
  /\ positions = <<>>
  /\ strategy = NoStrategy
  /\ segments = <<>>
  /\ swPc = "plan"
  /\ captureId = 0
  /\ didInjectContentScript = FALSE
  /\ segmentIndex = 0
  /\ posIndex = 0
  /\ result = "none"
  /\ failedStep = "none"
  /\ storedCount = 0
  /\ pendingCaptureId = 0
  /\ sessionPending = 0
  /\ StoreIdle
  /\ OffIdle
  /\ PdfIdle
  /\ ExtIdle

PlanPositions ==
  /\ swPc = "plan"
  /\ positions' = calculateScrollPositions(metrics.totalHeight, metrics.viewportHeight)
  /\ swPc' = "strategy"
  /\ UNCHANGED <<metrics, strategy, segments, captureId,
                 didInjectContentScript, segmentIndex, posIndex, result, failedStep, storedCount, pendingCaptureId, sessionPending>>
  /\ UNCHANGED <<storeVars, offVars, pdfVars, extVars>>

PlanStrategy ==
  /\ swPc = "strategy"
  /\ strategy' = computeCaptureStrategy(metrics)
  /\ swPc' = "segments"
  /\ UNCHANGED <<metrics, positions, segments, captureId,
                 didInjectContentScript, segmentIndex, posIndex, result, failedStep, storedCount, pendingCaptureId, sessionPending>>
  /\ UNCHANGED <<storeVars, offVars, pdfVars, extVars>>

PlanSegments ==
  /\ swPc = "segments"
  /\ segments' = buildCaptureSegments(positions, metrics.viewportHeight,
                                      metrics.totalHeight, strategy.viewportsPerSegment)
  /\ swPc' = "planned"
  /\ UNCHANGED <<metrics, positions, strategy, captureId,
                 didInjectContentScript, segmentIndex, posIndex, result, failedStep, storedCount, pendingCaptureId, sessionPending>>
  /\ UNCHANGED <<storeVars, offVars, pdfVars, extVars>>

NextPlan == PlanPositions \/ PlanStrategy \/ PlanSegments

SpecPlan == InitPlan /\ [][NextPlan]_vars

PositionsPlanned == swPc \in {"strategy", "segments", "planned"}
StrategyPlanned  == swPc \in {"segments", "planned"} /\ strategy.error = ""

\* C6: the windows [p, p + viewportHeight) of the planned offsets cover every
\* y in [0, totalHeight): consecutive offsets differ by at most
\* viewportHeight and the last window reaches totalHeight.
C6_WindowsCoverPage ==
  PositionsPlanned =>
    /\ Len(positions) >= 1
    /\ \A y \in 0..(metrics.totalHeight - 1) :
         \E k \in DOMAIN positions :
           positions[k] <= y /\ y < positions[k] + metrics.viewportHeight
    /\ \A k \in 1..(Len(positions) - 1) :
         positions[k + 1] - positions[k] <= metrics.viewportHeight
    /\ positions[Len(positions)] + metrics.viewportHeight >= metrics.totalHeight

C6_Witness ==
  /\ PositionsPlanned
  /\ Len(positions) >= 3
  /\ positions[Len(positions)] - positions[Len(positions) - 1] < metrics.viewportHeight

\* C7: the planned offsets are strictly increasing (so duplicate-free) and
\* start at 0.
C7_StrictlyIncreasingFromZero ==
  PositionsPlanned =>
    /\ Len(positions) >= 1
    /\ positions[1] = 0
    /\ \A k \in 1..(Len(positions) - 1) : positions[k] < positions[k + 1]

C7_Witness ==
  /\ PositionsPlanned
  /\ Len(positions) >= 3
  /\ metrics.totalHeight % metrics.viewportHeight = 0

\* C8 as stated: no planned offset exceeds totalHeight - viewportHeight and
\* the last offset's window ends exactly at totalHeight.
C8_Original_NoOffsetBeyondLastWindow ==
  PositionsPlanned =>
    /\ \A k \in DOMAIN positions :
         positions[k] <= metrics.totalHeight - metrics.viewportHeight
    /\ positions[Len(positions)] + metrics.viewportHeight = metrics.totalHeight

\* C8 amended: no planned offset exceeds max(0, totalHeight - viewportHeight);
\* when the page is at least one viewport tall the last offset's window ends
\* exactly at totalHeight, and a shorter page gets the single offset 0.
C8_NoOffsetBeyondLastWindow ==
  PositionsPlanned =>
    /\ \A k \in DOMAIN positions :
         positions[k] <= Max(0, metrics.totalHeight - metrics.viewportHeight)
    /\ metrics.totalHeight >= metrics.viewportHeight =>
         positions[Len(positions)] + metrics.viewportHeight = metrics.totalHeight
    /\ metrics.totalHeight < metrics.viewportHeight => positions = <<0>>

C8_Witness ==
  /\ PositionsPlanned
  /\ Len(positions) >= 2
  /\ metrics.totalHeight % metrics.viewportHeight # 0
  /\ positions[Len(positions)] = metrics.totalHeight - metrics.viewportHeight

\* effectiveDpr^2 * viewportWidth * height <= MAX_CANVAS_AREA, exactly
AreaWithinLimit(effectiveDpr, viewportWidth, height) ==
  BigLeq(BigMulSmall(BigMulSmall(BigMulSmall(BigOfInt(height), effectiveDpr),
                                 effectiveDpr), viewportWidth),
         BigMulSmall(BigMulSmall(BigOfInt(MAX_CANVAS_AREA), Milli), Milli))

\* C9 as stated: every strategy has effectiveDpr * viewportWidth <=
\* MAX_CANVAS_DIMENSION and (effectiveDpr * viewportWidth) *
\* (effectiveDpr * maxSegmentHeightCss) <= MAX_CANVAS_AREA.
C9_StrategyWithinLimits ==
  StrategyPlanned =>
    /\ strategy.effectiveDpr * metrics.viewportWidth <= MAX_CANVAS_DIMENSION * Milli
    /\ AreaWithinLimit(strategy.effectiveDpr, metrics.viewportWidth,
                       strategy.maxSegmentHeightCss)

\* C10 as stated: 0 < effectiveDpr <= the native devicePixelRatio.
C10_Original_NeverAboveNative ==
  StrategyPlanned =>
    /\ strategy.effectiveDpr > 0
    /\ 10 * strategy.effectiveDpr <= metrics.devicePixelRatio

\* C10 amended: 0.5 <= effectiveDpr <= max(0.5, the native devicePixelRatio
\* rounded to 3 decimals): the scale is only reduced from the native value,
\* apart from the rounding to 3 decimals and the floor of 0.5.
C10_AtMostRoundedNativeOrHalf ==
  StrategyPlanned =>
    /\ 2 * strategy.effectiveDpr >= Milli
    /\ strategy.effectiveDpr <=
         Max(Milli \div 2, roundTo(<<metrics.devicePixelRatio, 10 * Milli>>))

C10_Witness ==
  /\ StrategyPlanned
  /\ 10 * strategy.effectiveDpr < metrics.devicePixelRatio
  /\ strategy.effectiveDpr * metrics.viewportWidth > (MAX_CANVAS_DIMENSION - 8) * Milli

-----------------------------------------------------------------------------
(* offscreen document: prepareCanvas, determineCanvasStrategy,             *)
(* stitchViewport.  The canvas is white after prepareCanvas and its        *)
(* content is determined by the drawImage calls made since: drawOps.       *)

\* width, height in CSS px; dpr in units of 1/Milli
\* Variant of determineCanvasStrategy without the area limit.
determineCanvasStrategy_NoAreaLimit(width, height, dpr) ==
  LET safeWidth      == Max(1, width)
      safeHeight     == Max(1, height)
      safeDpr        == Max(Milli \div 2, dpr)
      physicalWidth  == MathRound(safeWidth * safeDpr, Milli)
      physicalHeight == MathRound(safeHeight * safeDpr, Milli)
  IN  IF physicalWidth > MAX_CANVAS_DIMENSION
        THEN [error |-> "Requested canvas width exceeds safe browser limits",
              scale |-> 0, canvasWidth |-> 0, canvasHeight |-> 0]
      ELSE IF physicalHeight > MAX_CANVAS_DIMENSION
        THEN [error |-> "Requested canvas height exceeds safe browser limits",
              scale |-> 0, canvasWidth |-> 0, canvasHeight |-> 0]
      ELSE [error |-> "", scale |-> safeDpr,
            canvasWidth |-> physicalWidth, canvasHeight |-> physicalHeight]

determineCanvasStrategy(width, height, dpr) ==
  LET safeWidth      == Max(1, width)
      safeHeight     == Max(1, height)
      safeDpr        == Max(Milli \div 2, dpr)
      physicalWidth  == MathRound(safeWidth * safeDpr, Milli)
      physicalHeight == MathRound(safeHeight * safeDpr, Milli)
  IN  IF physicalWidth > MAX_CANVAS_DIMENSION
        THEN [error |-> "Requested canvas width exceeds safe browser limits",
              scale |-> 0, canvasWidth |-> 0, canvasHeight |-> 0]
      ELSE IF physicalHeight > MAX_CANVAS_DIMENSION
        THEN [error |-> "Requested canvas height exceeds safe browser limits",
              scale |-> 0, canvasWidth |-> 0, canvasHeight |-> 0]
      ELSE IF physicalWidth * physicalHeight > MAX_CANVAS_AREA
        THEN [error |-> "Requested canvas area exceeds safe browser limits",
              scale |-> 0, canvasWidth |-> 0, canvasHeight |-> 0]
      ELSE [error |-> "", scale |-> safeDpr,
            canvasWidth |-> physicalWidth, canvasHeight |-> physicalHeight]

\* Variant of prepareCanvas that does not blank the canvas: what was drawn
\* for the segment before stays on it.
prepareCanvas_KeepDrawing(cv, cs, width, height, dpr, ctxOk) ==
  LET strat == determineCanvasStrategy(width, height, dpr)
  IN  IF strat.error # ""
        THEN [canvas |-> cv, canvasStrategy |-> cs, response |-> "error"]
        ELSE [canvas |-> [exists |-> TRUE, ctx |-> ctxOk,
                          width |-> strat.canvasWidth, height |-> strat.canvasHeight,
                          drawOps |-> cv.drawOps, lastDrawnBottomY |-> 0],
              canvasStrategy |-> [exists |-> TRUE, scale |-> strat.scale,
                                  canvasWidth |-> strat.canvasWidth,
                                  canvasHeight |-> strat.canvasHeight],
              response |-> IF ctxOk THEN "ok" ELSE "error"]

\* Variant of prepareCanvas that keeps _lastDrawnBottomY of the canvas it
\* replaces.
prepareCanvas_KeepLastDrawn(cv, cs, width, height, dpr, ctxOk) ==
  LET strat == determineCanvasStrategy(width, height, dpr)
  IN  IF strat.error # ""
        THEN [canvas |-> cv, canvasStrategy |-> cs, response |-> "error"]
        ELSE [canvas |-> [exists |-> TRUE, ctx |-> ctxOk,
                          width |-> strat.canvasWidth, height |-> strat.canvasHeight,
                          drawOps |-> <<>>,
                          lastDrawnBottomY |-> cv.lastDrawnBottomY],
              canvasStrategy |-> [exists |-> TRUE, scale |-> strat.scale,
                                  canvasWidth |-> strat.canvasWidth,
                                  canvasHeight |-> strat.canvasHeight],
              response |-> IF ctxOk THEN "ok" ELSE "error"]

\* The offscreen state and the response after prepareCanvas(width, height, dpr);
\* ctxOk: whether canvas.getContext('2d') returns a context.
prepareCanvas(cv, cs, width, height, dpr, ctxOk) ==
  LET strat == determineCanvasStrategy(width, height, dpr)
  IN  IF strat.error # ""
        THEN [canvas |-> cv, canvasStrategy |-> cs, response |-> "error"]
        ELSE [canvas |-> [exists |-> TRUE, ctx |-> ctxOk,
                          width |-> strat.canvasWidth, height |-> strat.canvasHeight,
                          drawOps |-> <<>>, lastDrawnBottomY |-> 0],
              canvasStrategy |-> [exists |-> TRUE, scale |-> strat.scale,
                                  canvasWidth |-> strat.canvasWidth,
                                  canvasHeight |-> strat.canvasHeight],
              response |-> IF ctxOk THEN "ok" ELSE "error"]

\* The geometry stitchViewport computes for one capture (lines 105-142).
StitchGeometry(cv, cs, yOffset, viewportHeight, isFirst, srcH) ==
  LET canvasScale == cs.scale
      drawY       == MathRound(yOffset * canvasScale, Milli)
      drawHeight  == MathRound(viewportHeight * canvasScale, Milli)
      alreadyDrawnUpTo == cv.lastDrawnBottomY
      overlaps    == (~isFirst) /\ yOffset > 0 /\ alreadyDrawnUpTo > drawY
      overlapPx   == alreadyDrawnUpTo - drawY
      srcCropY    == IF overlaps THEN MathRound(overlapPx * srcH, drawHeight) ELSE 0
      destCropY   == IF overlaps THEN alreadyDrawnUpTo ELSE drawY
  IN  [srcCropY |-> srcCropY, srcDrawH |-> srcH - srcCropY,
       destCropY |-> destCropY, destDrawH |-> drawHeight - (destCropY - drawY)]

\* Variant: the overlap with the rows already drawn is not cropped away.
stitchViewport_NoCrop(cv, cs, id, yOffset, viewportHeight, isFirst, srcH) ==
  LET g == StitchGeometry(cv, cs, yOffset, viewportHeight, TRUE, srcH)
      drawn == g.srcDrawH > 0 /\ g.destDrawH > 0
  IN  [cv EXCEPT !.drawOps = IF drawn THEN Append(@, [id |-> id] @@ g) ELSE @,
                 !.lastDrawnBottomY = g.destCropY + g.destDrawH]

\* The canvas after a stitchViewport whose image loaded and whose drawImage
\* did not throw; id numbers the capture within the segment.
stitchViewport(cv, cs, id, yOffset, viewportHeight, isFirst, srcH) ==
  LET g == StitchGeometry(cv, cs, yOffset, viewportHeight, isFirst, srcH)
      drawn == g.srcDrawH > 0 /\ g.destDrawH > 0
  IN  [cv EXCEPT !.drawOps = IF drawn THEN Append(@, [id |-> id] @@ g) ELSE @,
                 !.lastDrawnBottomY = g.destCropY + g.destDrawH]

\* The captures whose drawImage wrote physical row r of the canvas.
RowDrawers(cv, r) ==
  {k \in DOMAIN cv.drawOps :
     cv.drawOps[k].destCropY <= r /\ r < cv.drawOps[k].destCropY + cv.drawOps[k].destDrawH}

\* The requests answered since the last PREPARE_CANVAS; rerun: that
\* PREPARE_CANVAS found a canvas captures had been drawn on.
NoStitchLog ==
  [prepared |-> FALSE, rerun |-> FALSE, width |-> 0, height |-> 0,
   devicePixelRatio |-> 0, stitches |-> <<>>]

-----------------------------------------------------------------------------
(* SpecStitch: the offscreen document answering PREPARE_CANVAS and         *)
(* STITCH_VIEWPORT requests of a caller that sends the captures of a       *)
(* segment in increasing scroll order and stops at the first error (it     *)
(* sends no STITCH_VIEWPORT after a PREPARE_CANVAS that answered an error  *)
(* while an earlier canvas is still there).                                *)

MaxSegmentHeight  == 5
MaxStitchViewport == 3
MaxStitches       == 3

\* scales in units of 1/Milli
StitchScales == {500, 1000, 1250, 1500, 2000}

\* PREPARE_CANVAS requests: segments within the limits, one that is too wide,
\* and one for which the document gets no 2D context.
PrepareRequests ==
  {[width |-> 2, height |-> h, devicePixelRatio |-> d, ctxOk |-> TRUE] :
     h \in 1..MaxSegmentHeight, d \in StitchScales}
    \cup {[width |-> 20000, height |-> 1, devicePixelRatio |-> Milli, ctxOk |-> TRUE],
          [width |-> 2, height |-> 1, devicePixelRatio |-> Milli, ctxOk |-> FALSE]}

InitStitch ==
  /\ SwIdle
  /\ StoreIdle
  /\ canvas = NoCanvas
  /\ canvasStrategy = NoCanvasStrategy
  /\ stitchLog = NoStitchLog
  /\ PdfIdle
  /\ ExtIdle

OffPrepareCanvas ==
  \E m \in PrepareRequests :
    LET r == prepareCanvas(canvas, canvasStrategy, m.width, m.height,
                           m.devicePixelRatio, m.ctxOk)
    IN  /\ canvas' = r.canvas
        /\ canvasStrategy' = r.canvasStrategy
        /\ stitchLog' = [prepared |-> r.response = "ok",
                         rerun |-> canvas.lastDrawnBottomY > 0,
                         width |-> m.width,
                         height |-> m.height,
                         devicePixelRatio |-> m.devicePixelRatio,
                         stitches |-> <<>>]
        /\ UNCHANGED <<swVars, storeVars, pdfVars, extVars>>

LastStitchOk ==
  IF stitchLog.stitches = <<>>
    THEN TRUE
    ELSE stitchLog.stitches[Len(stitchLog.stitches)].response = "ok"

\* native devicePixelRatio values of the captured tab, in units of 1/Milli
NativeRatios == {250, 500, 1000, 1250, 1500, 2000}

\* STITCH_VIEWPORT requests.  The first capture of a segment is at offset 0,
\* the later ones further down with the same viewport height and the same
\* native ratio (the image has Math.round(viewportHeight * nativeDpr) rows);
\* the scale the canvas was prepared with is the effective ratio of the
\* service worker, which is at most the larger of the native ratio and 0.5;
\* emptyImage: the image has no rows.
OffStitchViewport ==
  /\ Len(stitchLog.stitches) < MaxStitches
  /\ LastStitchOk
  /\ stitchLog.prepared \/ ~(canvas.exists /\ canvas.ctx /\ canvasStrategy.exists)
  /\ \E yOffset \in 0..(MaxSegmentHeight - 1),
        viewportHeight \in 1..MaxStitchViewport,
        nativeDpr \in NativeRatios, emptyImage \in BOOLEAN, isFirst \in BOOLEAN,
        outcome \in {"ok", "load failed", "draw failed"} :
       LET n     == Len(stitchLog.stitches)
           srcH  == IF emptyImage THEN 0
                    ELSE MathRound(viewportHeight * nativeDpr, Milli)
           ready == canvas.exists /\ canvas.ctx /\ canvasStrategy.exists
           ok    == ready /\ outcome = "ok"
       IN  /\ IF n = 0
                THEN yOffset = 0
                ELSE /\ yOffset > stitchLog.stitches[n].yOffset
                     /\ viewportHeight = stitchLog.stitches[n].viewportHeight
                     /\ nativeDpr = stitchLog.stitches[n].nativeDpr
                     /\ ~isFirst
           /\ outcome # "ok" => ~emptyImage
           /\ canvasStrategy.exists =>
                canvasStrategy.scale <= Max(nativeDpr, Milli \div 2)
           /\ canvas' = IF ok
                          THEN stitchViewport(canvas, canvasStrategy, n + 1, yOffset,
                                              viewportHeight, isFirst, srcH)
                          ELSE canvas
           /\ stitchLog' = [stitchLog EXCEPT !.stitches =
                              Append(@, [yOffset |-> yOffset,
                                         viewportHeight |-> viewportHeight,
                                         nativeDpr |-> nativeDpr,
                                         srcH |-> srcH, isFirst |-> isFirst,
                                         response |-> IF ok THEN "ok" ELSE "error"])]
           /\ UNCHANGED canvasStrategy
           /\ UNCHANGED <<swVars, storeVars, pdfVars, extVars>>

NextStitch == OffPrepareCanvas \/ OffStitchViewport

SpecStitch == InitStitch /\ [][NextStitch]_vars

\* Every capture of the prepared segment has been stitched successfully, in
\* increasing scroll order, from non-empty images, and the captures' windows
\* cover [0, height) of the segment.
SegmentStitched ==
  LET st == stitchLog.stitches
  IN  /\ stitchLog.prepared
      /\ st # <<>>
      /\ \A k \in DOMAIN st : st[k].response = "ok" /\ st[k].srcH > 0
      /\ st[1].yOffset = 0
      /\ \A k \in 1..(Len(st) - 1) :
           st[k + 1].yOffset <= st[k].yOffset + st[k].viewportHeight
      /\ st[Len(st)].yOffset + st[Len(st)].viewportHeight >= stitchLog.height

\* C1 as stated: after PREPARE_CANVAS and the STITCH_VIEWPORT of every
\* capture of a segment, every physical row of the canvas has been drawn by
\* exactly one capture.
C1_EveryRowDrawnExactlyOnce ==
  SegmentStitched =>
    \A r \in 0..(canvas.height - 1) : Cardinality(RowDrawers(canvas, r)) = 1


\* the physical rows of the window of the k-th capture of the segment:
\* from drawY up to drawY + drawHeight
WindowRows(k) ==
  LET st    == stitchLog.stitches[k]
      drawY == MathRound(st.yOffset * canvasStrategy.scale, Milli)
      drawHeight == MathRound(st.viewportHeight * canvasStrategy.scale, Milli)
  IN  {r \in 0..(canvas.height - 1) : drawY <= r /\ r < drawY + drawHeight}

\* the captures whose window covers the physical row
CoveringCaptures(r) == {k \in DOMAIN stitchLog.stitches : r \in WindowRows(k)}

\* the capture whose pixels the row holds in the end: the last one that drew
\* it, 0 when the row still has the white fill
RowHolder(cv, r) ==
  IF RowDrawers(cv, r) = {} THEN 0
  ELSE CHOOSE k \in RowDrawers(cv, r) : \A j \in RowDrawers(cv, r) : j <= k

\* C15 as stated: a row covered by the windows of two consecutive captures
\* holds the pixels of the later one.
C15_Original_LaterCaptureWins ==
  SegmentStitched =>
    \A k \in 1..(Len(stitchLog.stitches) - 1) :
      \A r \in WindowRows(k) \cap WindowRows(k + 1) :
        RowHolder(canvas, r) = k + 1

\* C15 amended: a row covered by the windows of two consecutive captures is
\* never drawn by the later one or by any capture after it: the row keeps
\* what the earlier capture or the captures before it have drawn.
C15_EarlierCaptureKeepsOverlap ==
  SegmentStitched =>
    \A k \in 1..(Len(stitchLog.stitches) - 1) :
      \A r \in WindowRows(k) \cap WindowRows(k + 1) :
        /\ (k + 1) \notin RowDrawers(canvas, r)
        /\ RowHolder(canvas, r) <= k

\* a stitched segment in which two consecutive windows share a row
C15_Witness ==
  /\ SegmentStitched
  /\ \E k \in 1..(Len(stitchLog.stitches) - 1) :
       WindowRows(k) \cap WindowRows(k + 1) # {}

\* C16: every physical row that a window covers was drawn by one capture
\* only, the earliest (topmost in scroll order) whose window covers it.
C16_TopmostCaptureDrawsRow ==
  SegmentStitched =>
    \A r \in 0..(canvas.height - 1) :
      CoveringCaptures(r) # {} =>
        RowDrawers(canvas, r) =
          {CHOOSE k \in CoveringCaptures(r) : \A j \in CoveringCaptures(r) : k <= j}

\* a stitched segment with a row that the windows of three captures cover
C16_Witness ==
  /\ SegmentStitched
  /\ \E r \in 0..(canvas.height - 1) : Cardinality(CoveringCaptures(r)) >= 3

\* The canvas after the STITCH_VIEWPORT requests st[k], st[k + 1], ... in
\* this order, each with the answer it got, starting from canvas cv.
RECURSIVE ReplayStitches(_, _, _, _)
ReplayStitches(cv, cs, st, k) ==
  IF k > Len(st) THEN cv
  ELSE ReplayStitches(IF st[k].response = "ok"
                        THEN stitchViewport(cv, cs, k, st[k].yOffset,
                                            st[k].viewportHeight, st[k].isFirst,
                                            st[k].srcH)
                        ELSE cv,
                      cs, st, k + 1)

\* The offscreen state after the PREPARE_CANVAS of the log in a document
\* that has never held a canvas.
FreshPrepare ==
  prepareCanvas(NoCanvas, NoCanvasStrategy, stitchLog.width, stitchLog.height,
                stitchLog.devicePixelRatio, TRUE)

\* C17: stitching is deterministic.  After a PREPARE_CANVAS and a sequence
\* of STITCH_VIEWPORT requests the canvas (its draw operations and
\* _lastDrawnBottomY) and the canvas strategy are what the same requests
\* produce in a document that never held a canvas: whatever was prepared
\* and stitched before the PREPARE_CANVAS has no influence.
C17_StitchingDeterministic ==
  stitchLog.prepared =>
    /\ canvasStrategy = FreshPrepare.canvasStrategy
    /\ canvas = ReplayStitches(FreshPrepare.canvas, FreshPrepare.canvasStrategy,
                               stitchLog.stitches, 1)

\* a second run: the PREPARE_CANVAS replaced a canvas that had been drawn
\* on, and a capture of the new run was cropped at _lastDrawnBottomY
C17_Witness ==
  /\ stitchLog.prepared
  /\ stitchLog.rerun
  /\ Len(stitchLog.stitches) >= 2
  /\ \E j \in DOMAIN canvas.drawOps : canvas.drawOps[j].srcCropY > 0

\* the capture of the k-th STITCH_VIEWPORT was drawn onto the canvas
CaptureDrawn(k) == \E j \in DOMAIN canvas.drawOps : canvas.drawOps[j].id = k

\* C18: a STITCH_VIEWPORT is answered ok only if its capture was drawn; a
\* capture that could not be drawn (image not loaded, drawImage threw, image
\* without rows) is answered with an error, never skipped.
C18_UndrawnCaptureAnswersError ==
  \A k \in DOMAIN stitchLog.stitches :
    stitchLog.stitches[k].response = "ok" => CaptureDrawn(k)

-----------------------------------------------------------------------------
(* Spec: captureFullPage of the service worker, one capture after another, *)
(* with the offscreen document and the CaptureStore it talks to.  Every    *)
(* awaited call either succeeds or fails.                                  *)

MaxCaptures == 2

\* Page metrics the content script answers START_CAPTURE with: a page of two
\* segments, a short page, a viewport too tall for one canvas, a page at a
\* fractional device pixel ratio, and a viewport too wide for a canvas.
CaptureInputs ==
  {[totalHeight |-> 9000, viewportHeight |-> 3000, viewportWidth |-> 16384,
    devicePixelRatio |-> 10000],
   [totalHeight |-> 1000, viewportHeight |-> 800, viewportWidth |-> 1280,
    devicePixelRatio |-> 20000],
   [totalHeight |-> 7000, viewportHeight |-> 7000, viewportWidth |-> 16384,
    devicePixelRatio |-> 10000],
   [totalHeight |-> 1874, viewportHeight |-> 937, viewportWidth |-> 1536,
    devicePixelRatio |-> 12500],
   [totalHeight |-> 1000, viewportHeight |-> 800, viewportWidth |-> 40000,
    devicePixelRatio |-> 10000]}

\* Variant of CaptureStore.deleteCapture that deletes the metadata only.
StoreDeleteCapture_MetaOnly(captures, segs, pending, id) ==
  [captures |-> {c \in captures : c.captureId # id},
   segments |-> segs,
   pending  |-> pending]

\* CaptureStore.deleteCapture(id) when its transaction commits.
StoreDeleteCapture(captures, segs, pending, id) ==
  [captures |-> {c \in captures : c.captureId # id},
   segments |-> {g \in segs : g.captureId # id},
   pending  |-> IF pending = id THEN 0 ELSE pending]

\* Variant of putCaptureSegment whose key is the capture id alone.
StorePutSegment_KeyByCapture(segs, seg) ==
  {g \in segs : g.captureId # seg.captureId} \cup {seg}

\* CaptureStore.putCaptureSegment: put() replaces the record with the same key.
StorePutSegment(segs, seg) ==
  {g \in segs : ~(g.captureId = seg.captureId /\ g.index = seg.index)} \cup {seg}

\* CaptureStore.putCaptureMeta
StorePutMeta(captures, meta) ==
  {c \in captures : c.captureId # meta.captureId} \cup {meta}

Init ==
  /\ SwIdle
  /\ StoreIdle
  /\ OffIdle
  /\ PdfIdle
  /\ ExtIdle

CurrentSegment == segments[segmentIndex + 1]

\* A step of the capture throws: control goes to the catch block.
Throw(step) ==
  /\ swPc' = "catch"
  /\ failedStep' = step

\* handleCapture('full') reaching captureFullPage: a new capture id.
StartCapture ==
  /\ swPc = "idle"
  /\ captureId < MaxCaptures
  /\ captureId' = captureId + 1
  /\ swPc' = "inject"
  /\ metrics' = NoMetrics
  /\ positions' = <<>>
  /\ strategy' = NoStrategy
  /\ segments' = <<>>
  /\ didInjectContentScript' = FALSE
  /\ segmentIndex' = 0
  /\ posIndex' = 0
  /\ result' = "none"
  /\ failedStep' = "none"
  /\ storedCount' = 0
  /\ UNCHANGED <<pendingCaptureId, sessionPending, storeVars, offVars, pdfVars, extVars>>

\* chrome.scripting.executeScript
InjectContentScript ==
  /\ swPc = "inject"
  /\ \E ok \in BOOLEAN :
       IF ok THEN /\ didInjectContentScript' = TRUE
                  /\ swPc' = "metrics"
                  /\ UNCHANGED failedStep
             ELSE /\ Throw("inject")
                  /\ UNCHANGED didInjectContentScript
  /\ UNCHANGED <<metrics, positions, strategy, segments, captureId, segmentIndex,
                 posIndex, result, storedCount, pendingCaptureId, sessionPending,
                 storeVars, offVars, pdfVars, extVars>>

\* START_CAPTURE and the plan computed from its answer.
MeasureAndPlan ==
  /\ swPc = "metrics"
  /\ \/ /\ Throw("metrics")
        /\ UNCHANGED <<metrics, positions, strategy, segments>>
     \/ \E m \in CaptureInputs :
          LET pos   == calculateScrollPositions(m.totalHeight, m.viewportHeight)
              strat == computeCaptureStrategy(m)
          IN  /\ metrics' = m
              /\ positions' = pos
              /\ strategy' = strat
              /\ IF strat.error # ""
                   THEN /\ Throw("strategy")
                        /\ segments' = <<>>
                   ELSE /\ segments' = buildCaptureSegments(pos, m.viewportHeight,
                                         m.totalHeight, strat.viewportsPerSegment)
                        /\ swPc' = "offscreen"
                        /\ UNCHANGED failedStep
  /\ UNCHANGED <<captureId, didInjectContentScript, segmentIndex, posIndex, result,
                 storedCount, pendingCaptureId, sessionPending,
                 storeVars, offVars, pdfVars, extVars>>

\* ensureOffscreenDocument
EnsureOffscreenDocument ==
  /\ swPc = "offscreen"
  /\ \E ok \in BOOLEAN :
       IF ok THEN /\ swPc' = IF Len(segments) > 0 THEN "prepare" ELSE "meta"
                  /\ UNCHANGED failedStep
             ELSE Throw("offscreen")
  /\ UNCHANGED <<metrics, positions, strategy, segments, captureId,
                 didInjectContentScript, segmentIndex, posIndex, result,
                 storedCount, pendingCaptureId, sessionPending,
                 storeVars, offVars, pdfVars, extVars>>


\* PREPARE_CANVAS for the current segment and the offscreen document's answer.
PrepareSegment ==
  /\ swPc = "prepare"
  /\ \E ctxOk \in BOOLEAN :
       LET r == prepareCanvas(canvas, canvasStrategy, metrics.viewportWidth,
                              CurrentSegment.height, strategy.effectiveDpr, ctxOk)
       IN  /\ canvas' = r.canvas
           /\ canvasStrategy' = r.canvasStrategy
           /\ stitchLog' = [prepared |-> r.response = "ok",
                            rerun |-> canvas.lastDrawnBottomY > 0,
                            width |-> metrics.viewportWidth,
                            height |-> CurrentSegment.height,
                            devicePixelRatio |-> strategy.effectiveDpr,
                            stitches |-> <<>>]
           /\ IF r.response = "ok"
                THEN /\ swPc' = "scroll"
                     /\ UNCHANGED failedStep
                ELSE Throw("prepare")
  /\ posIndex' = 0
  /\ UNCHANGED <<metrics, positions, strategy, segments, captureId,
                 didInjectContentScript, segmentIndex, result, storedCount,
                 pendingCaptureId, sessionPending, storeVars, pdfVars, extVars>>

\* updateProgress, SCROLL_TO and the settle delay.
ScrollTo ==
  /\ swPc = "scroll"
  /\ \E ok \in BOOLEAN :
       IF ok THEN /\ swPc' = "capture"
                  /\ UNCHANGED failedStep
             ELSE Throw("scroll")
  /\ UNCHANGED <<metrics, positions, strategy, segments, captureId,
                 didInjectContentScript, segmentIndex, posIndex, result,
                 storedCount, pendingCaptureId, sessionPending,
                 storeVars, offVars, pdfVars, extVars>>

\* captureWithRetry: a data URL, or an error once the retries are used up.
CaptureTab ==
  /\ swPc = "capture"
  /\ \E ok \in BOOLEAN :
       IF ok THEN /\ swPc' = "stitch"
                  /\ UNCHANGED failedStep
             ELSE Throw("capture")
  /\ UNCHANGED <<metrics, positions, strategy, segments, captureId,
                 didInjectContentScript, segmentIndex, posIndex, result,
                 storedCount, pendingCaptureId, sessionPending,
                 storeVars, offVars, pdfVars, extVars>>

\* stitchQueue: the STITCH_VIEWPORT requests sent and not yet answered
\* (trackPromise removes a promise from the set when it settles).
StitchQueue ==
  {k \in DOMAIN stitchLog.stitches : stitchLog.stitches[k].response = "pending"}

\* some STITCH_VIEWPORT of the segment was answered with an error
StitchRejected ==
  \E k \in DOMAIN stitchLog.stitches : stitchLog.stitches[k].response = "error"

\* Variant: the loop never waits for a stitch before the next scroll.
MustAwaitStitch_Never(queueSize) == FALSE

\* if (stitchQueue.size >= CAPTURE_LIMITS.STITCH_CONCURRENCY)
MustAwaitStitch(queueSize) == queueSize >= STITCH_CONCURRENCY

\* where the loop over the positions of the segment goes after position i
AfterPosition(i) ==
  IF i < Len(CurrentSegment.positions) THEN "scroll" ELSE "await all"

\* chrome.runtime.sendMessage(STITCH_VIEWPORT) and trackPromise: the request
\* is in flight; the loop waits for a stitch when the queue is full.
SendStitch ==
  /\ swPc = "stitch"
  /\ LET seg     == CurrentSegment
         yOffset == seg.positions[posIndex + 1] - seg.startY
         isFirst == seg.startPositionIndex + posIndex = 0
         srcH    == MathRound(metrics.viewportHeight * NativeDpr(metrics), 10 * Milli)
     IN  stitchLog' = [stitchLog EXCEPT !.stitches =
                         Append(@, [yOffset |-> yOffset,
                                    viewportHeight |-> metrics.viewportHeight,
                                    nativeDpr |-> NativeDpr(metrics),
                                    srcH |-> srcH, isFirst |-> isFirst,
                                    response |-> "pending"])]
  /\ posIndex' = posIndex + 1
  /\ swPc' = IF MustAwaitStitch(Cardinality(StitchQueue) + 1)
               THEN "await stitch" ELSE AfterPosition(posIndex + 1)
  /\ UNCHANGED <<metrics, positions, strategy, segments, captureId,
                 didInjectContentScript, segmentIndex, result, failedStep,
                 storedCount, pendingCaptureId, sessionPending, canvas,
                 canvasStrategy, storeVars, pdfVars, extVars>>

\* The offscreen document's stitchViewport for a request in flight, and its
\* answer: ok, or an error when the image does not load or drawImage throws.
OffStitchAnswer ==
  \E k \in StitchQueue, outcome \in {"ok", "load failed", "draw failed"} :
    LET st    == stitchLog.stitches[k]
        ready == canvas.exists /\ canvas.ctx /\ canvasStrategy.exists
        ok    == ready /\ outcome = "ok"
    IN  /\ canvas' = IF ok
                       THEN stitchViewport(canvas, canvasStrategy, k, st.yOffset,
                                           st.viewportHeight, st.isFirst, st.srcH)
                       ELSE canvas
        /\ stitchLog' = [stitchLog EXCEPT !.stitches[k].response =
                           IF ok THEN "ok" ELSE "error"]
        /\ UNCHANGED <<swVars, canvasStrategy, storeVars, pdfVars, extVars>>

\* await Promise.race(stitchQueue): goes on when a stitch of the queue has
\* been answered, and throws when the answer was an error.
AwaitStitch ==
  /\ swPc = "await stitch"
  /\ Cardinality(StitchQueue) < STITCH_CONCURRENCY
  /\ IF StitchRejected
       THEN Throw("stitch")
       ELSE /\ swPc' = AfterPosition(posIndex)
            /\ UNCHANGED failedStep
  /\ UNCHANGED <<metrics, positions, strategy, segments, captureId,
                 didInjectContentScript, segmentIndex, posIndex, result,
                 storedCount, pendingCaptureId, sessionPending,
                 storeVars, offVars, pdfVars, extVars>>

\* await Promise.all(stitchQueue) after the last position of the segment.
AwaitAllStitches ==
  /\ swPc = "await all"
  /\ StitchQueue = {}
  /\ IF StitchRejected
       THEN Throw("stitch")
       ELSE /\ swPc' = "store"
            /\ UNCHANGED failedStep
  /\ UNCHANGED <<metrics, positions, strategy, segments, captureId,
                 didInjectContentScript, segmentIndex, posIndex, result,
                 storedCount, pendingCaptureId, sessionPending,
                 storeVars, offVars, pdfVars, extVars>>

\* GET_RESULT_BLOB: storeCurrentSegment in the offscreen document.
StoreSegment ==
  /\ swPc = "store"
  /\ \E outcome \in {"ok", "blob failed", "put failed"} :
       LET seg == CurrentSegment
           rec == [captureId |-> captureId, index |-> seg.index,
                   width |-> canvas.width, height |-> canvas.height,
                   yStart |-> seg.startY,
                   yEnd |-> IF seg.endY = 0 THEN canvas.height ELSE seg.endY]
       IN  IF outcome = "ok" /\ canvas.exists /\ canvas.ctx
             THEN /\ storeSegments' = StorePutSegment(storeSegments, rec)
                  /\ storedCount' = storedCount + 1
                  /\ segmentIndex' = segmentIndex + 1
                  /\ swPc' = IF segmentIndex + 1 < Len(segments)
                               THEN "prepare" ELSE "meta"
                  /\ UNCHANGED failedStep
             ELSE /\ Throw("store")
                  /\ UNCHANGED <<storeSegments, storedCount, segmentIndex>>
  /\ UNCHANGED <<metrics, positions, strategy, segments, captureId,
                 didInjectContentScript, posIndex, result, pendingCaptureId,
                 sessionPending, storeCaptures, storePending, offVars, pdfVars, extVars>>

\* CaptureStore.putCaptureMeta
PutCaptureMeta ==
  /\ swPc = "meta"
  /\ \E ok \in BOOLEAN :
       IF ok
         THEN /\ storeCaptures' = StorePutMeta(storeCaptures,
                   [captureId |-> captureId, mode |-> "full",
                    segmentCount |-> Len(segments),
                    width |-> MathRound(metrics.viewportWidth * strategy.effectiveDpr, Milli),
                    totalHeight |-> MathRound(metrics.totalHeight * strategy.effectiveDpr, Milli)])
              /\ swPc' = "pending"
              /\ UNCHANGED failedStep
         ELSE /\ Throw("meta")
              /\ UNCHANGED storeCaptures
  /\ UNCHANGED <<metrics, positions, strategy, segments, captureId,
                 didInjectContentScript, segmentIndex, posIndex, result,
                 storedCount, pendingCaptureId, sessionPending, storeSegments,
                 storePending, offVars, pdfVars, extVars>>


\* setPendingCapture(captureId): the in-memory id is assigned first, then the
\* store write is awaited (it may fail), then the session write (a failure of
\* which is ignored).
SetPendingCapture ==
  /\ swPc = "pending"
  /\ pendingCaptureId' = captureId
  /\ \E persistOk \in BOOLEAN, sessionOk \in BOOLEAN :
       IF persistOk
         THEN /\ storePending' = captureId
              /\ sessionPending' = IF sessionOk THEN captureId ELSE sessionPending
              /\ swPc' = "open"
              /\ UNCHANGED failedStep
         ELSE /\ Throw("pending")
              /\ UNCHANGED <<storePending, sessionPending>>
  /\ UNCHANGED <<metrics, positions, strategy, segments, captureId,
                 didInjectContentScript, segmentIndex, posIndex, result,
                 storedCount, storeCaptures, storeSegments, offVars, pdfVars, extVars>>

\* chrome.tabs.create for the viewer, then return {success}.
OpenViewer ==
  /\ swPc = "open"
  /\ \E ok \in BOOLEAN :
       IF ok THEN /\ result' = "success"
                  /\ swPc' = "finally"
                  /\ UNCHANGED failedStep
             ELSE /\ Throw("open")
                  /\ UNCHANGED result
  /\ UNCHANGED <<metrics, positions, strategy, segments, captureId,
                 didInjectContentScript, segmentIndex, posIndex, storedCount,
                 pendingCaptureId, sessionPending, storeVars, offVars, pdfVars, extVars>>

\* The catch block: CaptureStore.deleteCapture(captureId).catch(() => {}),
\* whose transaction commits or aborts, then return {error}.
CatchError ==
  /\ swPc = "catch"
  /\ \E committed \in BOOLEAN :
       LET d == StoreDeleteCapture(storeCaptures, storeSegments, storePending,
                                   captureId)
       IN  IF committed
             THEN /\ storeCaptures' = d.captures
                  /\ storeSegments' = d.segments
                  /\ storePending' = d.pending
             ELSE UNCHANGED storeVars
  /\ result' = "error"
  /\ swPc' = "finally"
  /\ UNCHANGED <<metrics, positions, strategy, segments, captureId,
                 didInjectContentScript, segmentIndex, posIndex, failedStep,
                 storedCount, pendingCaptureId, sessionPending, offVars, pdfVars, extVars>>

\* The finally block: CLEANUP to the tab when the script was injected.
Finally ==
  /\ swPc = "finally"
  /\ swPc' = "idle"
  /\ UNCHANGED <<metrics, positions, strategy, segments, captureId,
                 didInjectContentScript, segmentIndex, posIndex, result,
                 failedStep, storedCount, pendingCaptureId, sessionPending,
                 storeVars, offVars, pdfVars, extVars>>

Next ==
  \/ StartCapture
  \/ InjectContentScript
  \/ MeasureAndPlan
  \/ EnsureOffscreenDocument
  \/ PrepareSegment
  \/ ScrollTo
  \/ CaptureTab
  \/ SendStitch
  \/ OffStitchAnswer
  \/ AwaitStitch
  \/ AwaitAllStitches
  \/ StoreSegment
  \/ PutCaptureMeta
  \/ SetPendingCapture
  \/ OpenViewer
  \/ CatchError
  \/ Finally

Spec == Init /\ [][Next]_vars

\* captureFullPage has returned
CaptureReturned == swPc = "idle" /\ captureId > 0

\* the steps of a capture that claim C2 lists
CaptureSteps == {"scroll", "capture", "prepare", "stitch", "store"}

StoreHoldsNothingOf(id) ==
  /\ \A g \in storeSegments : g.captureId # id
  /\ \A c \in storeCaptures : c.captureId # id

PendingNotSetTo(id) ==
  /\ pendingCaptureId # id
  /\ storePending # id
  /\ sessionPending # id

\* C2 as stated: when a scroll, a tab capture, a canvas preparation, a stitch
\* or the storing of a segment has failed, captureFullPage returns {error},
\* the store holds no segment and no metadata of that capture, and the
\* pending capture id is not that capture's id.
C2_FailedCaptureLeavesNothing ==
  (CaptureReturned /\ failedStep \in CaptureSteps) =>
    /\ result = "error"
    /\ StoreHoldsNothingOf(captureId)
    /\ PendingNotSetTo(captureId)

\* What holds of a failed capture whatever the cleanup transaction does: an
\* {error} result, no metadata, no pending id; and no segment once the
\* cleanup transaction has committed.
C2_FailedCaptureNeverExposed ==
  (CaptureReturned /\ failedStep \in CaptureSteps) =>
    /\ result = "error"
    /\ \A c \in storeCaptures : c.captureId # captureId
    /\ PendingNotSetTo(captureId)


\* a canvas or stored segment of these physical sizes is within the limits
WithinCanvasLimits(width, height) ==
  /\ width <= MAX_CANVAS_DIMENSION
  /\ height <= MAX_CANVAS_DIMENSION
  /\ width * height <= MAX_CANVAS_AREA

\* the limits refuse the PREPARE_CANVAS of the current segment
PrepareRefused ==
  determineCanvasStrategy(metrics.viewportWidth, CurrentSegment.height,
                          strategy.effectiveDpr).error # ""

\* C11: the canvas of the offscreen document and every stored segment are
\* within the platform limits (width and height at most 16384, area at most
\* 100000000), and a PREPARE_CANVAS step either leaves a new canvas within
\* the limits or answers an error, leaves canvas and strategy as they were
\* and sends the capture to its catch block.
C11_NoCanvasBeyondLimits ==
  /\ [](/\ canvas.exists => WithinCanvasLimits(canvas.width, canvas.height)
        /\ \A g \in storeSegments : WithinCanvasLimits(g.width, g.height))
  /\ [][PrepareSegment =>
          \/ /\ canvas'.exists
             /\ canvas'.drawOps = <<>>
             /\ WithinCanvasLimits(canvas'.width, canvas'.height)
          \/ /\ canvas' = canvas
             /\ canvasStrategy' = canvasStrategy
             /\ ~stitchLog'.prepared
             /\ swPc' = "catch"
             /\ failedStep' = "prepare"]_vars

\* a PREPARE_CANVAS was refused by the limits and the capture is in its
\* catch block
C11_Witness ==
  /\ swPc = "catch"
  /\ failedStep = "prepare"
  /\ PrepareRefused

\* the STITCH_VIEWPORT requests sent since PREPARE_CANVAS are those of the
\* first positions of the current segment, in the order of the positions
StitchesFollowPositions ==
  /\ Len(stitchLog.stitches) <= Len(CurrentSegment.positions)
  /\ \A k \in DOMAIN stitchLog.stitches :
       stitchLog.stitches[k].yOffset =
         CurrentSegment.positions[k] - CurrentSegment.startY
  /\ \A k \in 1..(Len(stitchLog.stitches) - 1) :
       stitchLog.stitches[k].yOffset < stitchLog.stitches[k + 1].yOffset

\* every position of the current segment has been stitched and answered ok
AllStitchesOk ==
  /\ Len(stitchLog.stitches) = Len(CurrentSegment.positions)
  /\ \A k \in DOMAIN stitchLog.stitches : stitchLog.stitches[k].response = "ok"

\* the capture is in the loop over the positions of a segment
InSegmentLoop ==
  swPc \in {"scroll", "capture", "stitch", "await stitch", "await all", "store"}

\* C19: within a capture at most one STITCH_VIEWPORT is in flight, the
\* stitches of a segment are sent in increasing scroll order, a new one is
\* sent only when none is in flight, and GET_RESULT_BLOB is sent only when
\* every stitch of the segment has been answered ok.
C19_OneStitchInFlight ==
  /\ [](/\ Cardinality(StitchQueue) <= 1
        /\ InSegmentLoop => StitchesFollowPositions
        /\ swPc = "store" => AllStitchesOk)
  /\ [][SendStitch => StitchQueue = {}]_vars
  /\ [][StoreSegment => AllStitchesOk]_vars

\* a stitch is in flight while an earlier one of the segment has been drawn
C19_Witness ==
  /\ swPc = "await stitch"
  /\ Cardinality(StitchQueue) = 1
  /\ Len(stitchLog.stitches) >= 2
  /\ canvas.drawOps # <<>>

\* the segments of the capture with an index below i are in the store
SegmentsStoredBelow(i) ==
  \A j \in 0..(i - 1) :
    \E g \in storeSegments : g.captureId = captureId /\ g.index = j

\* C20: the segments of a capture are processed in index order, each on a
\* fresh buffer.  PREPARE_CANVAS for a segment is sent when every segment
\* before it has been stored (GET_RESULT_BLOB answered) and no later one has;
\* when it answers ok the canvas is blank with _lastDrawnBottomY 0 and no
\* stitch of the segment has been sent; the stitches sent until
\* GET_RESULT_BLOB are those of that segment; GET_RESULT_BLOB stores the
\* segment under its index and moves on to the next index.
C20_SegmentsInOrderOnFreshBuffer ==
  /\ [](InSegmentLoop =>
          /\ stitchLog.prepared
          /\ stitchLog.height = CurrentSegment.height
          /\ CurrentSegment.index = segmentIndex
          /\ storedCount = segmentIndex
          /\ SegmentsStoredBelow(segmentIndex)
          /\ \A g \in storeSegments :
               g.captureId = captureId => g.index < segmentIndex)
  /\ [][PrepareSegment =>
          /\ storedCount = segmentIndex
          /\ SegmentsStoredBelow(segmentIndex)
          /\ stitchLog'.stitches = <<>>
          /\ stitchLog'.prepared =>
               /\ canvas'.drawOps = <<>>
               /\ canvas'.lastDrawnBottomY = 0
               /\ swPc' = "scroll"
          /\ ~stitchLog'.prepared => swPc' = "catch"]_vars
  /\ [][StoreSegment =>
          \/ swPc' = "catch" /\ storeSegments' = storeSegments
          \/ /\ segmentIndex' = segmentIndex + 1
             /\ \E g \in storeSegments' :
                  g.captureId = captureId /\ g.index = segmentIndex
             /\ swPc' = IF segmentIndex' < Len(segments) THEN "prepare" ELSE "meta"]_vars

\* the second segment of a capture has been prepared after the first was
\* stitched and stored
C20_Witness ==
  /\ swPc = "scroll"
  /\ segmentIndex = 1
  /\ stitchLog.prepared
  /\ stitchLog.rerun
  /\ stitchLog.stitches = <<>>
  /\ SegmentsStoredBelow(1)

\* the segment records of the capture with the index
StoredSegments(id, i) ==
  {g \in storeSegments : g.captureId = id /\ g.index = i}

\* the metadata record of the capture is in the store
MetaStored(id) == \E c \in storeCaptures : c.captureId = id

\* C24: after a successful capture planned as N segments the store holds
\* exactly one segment record for each index 0..N-1 under the capture's id
\* and none with another index, and its metadata has segmentCount N; the
\* metadata is written only when every segment has been stored, and the
\* pending capture id is set only when the metadata has been written.
C24_SegmentsThenMetaThenPending ==
  /\ [](result = "success" =>
          /\ \A i \in 0..(Len(segments) - 1) :
               Cardinality(StoredSegments(captureId, i)) = 1
          /\ \A g \in storeSegments :
               g.captureId = captureId => g.index \in 0..(Len(segments) - 1)
          /\ MetaStored(captureId)
          /\ \A c \in storeCaptures :
               c.captureId = captureId => c.segmentCount = Len(segments))
  /\ [][(PutCaptureMeta /\ storeCaptures' # storeCaptures) =>
          \A i \in 0..(Len(segments) - 1) :
            Cardinality(StoredSegments(captureId, i)) = 1]_vars
  /\ [][SetPendingCapture => MetaStored(captureId)]_vars
  /\ []((captureId > 0 /\ swPc \in {"pending", "open"}
          /\ (pendingCaptureId = captureId \/ storePending = captureId
                \/ sessionPending = captureId))
         => MetaStored(captureId))

\* a capture of two segments has returned {success}
C24_Witness ==
  /\ swPc = "idle"
  /\ result = "success"
  /\ Len(segments) = 2

-----------------------------------------------------------------------------
(* SpecSegments: buildCaptureSegments applied to the offsets that          *)
(* calculateScrollPositions plans for a page, or to any given sequence of  *)
(* offsets, with any viewportsPerSegment.  swPc tells the two apart: the   *)
(* given sequences go through the "given ..." positions of the plan.       *)

MaxViewportsPerSegment == 3
MaxGivenLen            == 3
MaxGivenOffset         == 3

SegmentGeometry ==
  ((1..MaxTotalHeight) \X (1..MaxViewportHeight)) \cup {<<2500, 1000>>}

\* any sequence of offsets: unsorted ones and ones with duplicates included
GivenPositions ==
  UNION {[1..n -> 0..MaxGivenOffset] : n \in 0..MaxGivenLen}

InitSegments ==
  /\ metrics \in {[totalHeight |-> g[1], viewportHeight |-> g[2],
                   viewportWidth |-> 1, devicePixelRatio |-> 10 * Milli] :
                    g \in SegmentGeometry}
  /\ positions = <<>>
  /\ strategy = NoStrategy
  /\ segments = <<>>
  /\ swPc = "positions"
  /\ captureId = 0
  /\ didInjectContentScript = FALSE
  /\ segmentIndex = 0
  /\ posIndex = 0
  /\ result = "none"
  /\ failedStep = "none"
  /\ storedCount = 0
  /\ pendingCaptureId = 0
  /\ sessionPending = 0
  /\ StoreIdle
  /\ OffIdle
  /\ PdfIdle
  /\ ExtIdle

SegUnchanged ==
  UNCHANGED <<metrics, captureId, didInjectContentScript, segmentIndex, posIndex,
              result, failedStep, storedCount, pendingCaptureId, sessionPending,
              storeVars, offVars, pdfVars, extVars>>

\* positions = calculateScrollPositions(totalHeight, viewportHeight)
SegPlannedPositions ==
  /\ swPc = "positions"
  /\ positions' = calculateScrollPositions(metrics.totalHeight, metrics.viewportHeight)
  /\ swPc' = "strategy"
  /\ UNCHANGED <<strategy, segments>>
  /\ SegUnchanged

\* a caller's own sequence of offsets
SegGivenPositions ==
  /\ swPc = "positions"
  /\ \E s \in GivenPositions : positions' = s
  /\ swPc' = "given strategy"
  /\ UNCHANGED <<strategy, segments>>
  /\ SegUnchanged

\* any viewportsPerSegment >= 1
SegViewportsPerSegment ==
  /\ swPc \in {"strategy", "given strategy"}
  /\ \E v \in 1..MaxViewportsPerSegment :
       strategy' = [NoStrategy EXCEPT !.viewportsPerSegment = v]
  /\ swPc' = IF swPc = "strategy" THEN "segments" ELSE "given segments"
  /\ UNCHANGED <<positions, segments>>
  /\ SegUnchanged

SegBuild ==
  /\ swPc \in {"segments", "given segments"}
  /\ segments' = buildCaptureSegments(positions, metrics.viewportHeight,
                                      metrics.totalHeight, strategy.viewportsPerSegment)
  /\ swPc' = IF swPc = "segments" THEN "planned" ELSE "given planned"
  /\ UNCHANGED <<positions, strategy>>
  /\ SegUnchanged

NextSegments ==
  \/ SegPlannedPositions
  \/ SegGivenPositions
  \/ SegViewportsPerSegment
  \/ SegBuild

SpecSegments == InitSegments /\ [][NextSegments]_vars

SegmentsBuilt == swPc \in {"planned", "given planned"}

RECURSIVE ConcatPositions(_)
\* the positions lists of the segments, concatenated in segment order
ConcatPositions(segs) ==
  IF segs = <<>> THEN <<>>
  ELSE segs[1].positions \o ConcatPositions(Tail(segs))

\* C12: the segments' positions lists, concatenated in segment order, are the
\* input sequence; index counts 0, 1, 2, ... and startPositionIndex is the
\* number of positions in the earlier segments.
C12_SegmentsPartitionPositions ==
  SegmentsBuilt =>
    /\ ConcatPositions(segments) = positions
    /\ \A k \in DOMAIN segments :
         /\ segments[k].index = k - 1
         /\ segments[k].startPositionIndex =
              Len(ConcatPositions(SubSeq(segments, 1, k - 1)))

\* a given sequence with a repeated offset was split into several segments
C12_Witness ==
  /\ swPc = "given planned"
  /\ Len(segments) >= 2
  /\ \E i, j \in DOMAIN positions : i < j /\ positions[i] >= positions[j]

\* C13 as stated: the segments' (startY, endY) intervals of a planned page
\* are contiguous: the first startY is 0, each later startY is the previous
\* endY, and the last endY is totalHeight.
C13_SegmentIntervalsContiguous ==
  swPc = "planned" =>
    /\ segments # <<>>
    /\ segments[1].startY = 0
    /\ \A k \in 1..(Len(segments) - 1) : segments[k + 1].startY = segments[k].endY
    /\ segments[Len(segments)].endY = metrics.totalHeight

\* the page of 2500 rows seen through a viewport of 1000
Page2500 == metrics.totalHeight = 2500 /\ metrics.viewportHeight = 1000

\* C14: for totalHeight 2500 and viewportHeight 1000 the planned offsets are
\* <<0, 1000, 1500>>, and with viewportsPerSegment 2 there are exactly two
\* segments: offsets <<0, 1000>> over [0, 2000] and <<1500>> over [1500, 2500].
C14_Page2500Example ==
  /\ (Page2500 /\ swPc \in {"strategy", "segments", "planned"}) =>
       positions = <<0, 1000, 1500>>
  /\ (Page2500 /\ swPc = "planned" /\ strategy.viewportsPerSegment = 2) =>
       /\ Len(segments) = 2
       /\ segments[1].positions = <<0, 1000>>
       /\ segments[1].startY = 0
       /\ segments[1].endY = 2000
       /\ segments[2].positions = <<1500>>
       /\ segments[2].startY = 1500
       /\ segments[2].endY = 2500

C14_Witness ==
  Page2500 /\ swPc = "planned" /\ strategy.viewportsPerSegment = 2

-----------------------------------------------------------------------------
(* The viewer's paginator: appendCanvasToPagedPdf and findAllWhitespaceBands. *)
(* Lengths on the page are in tenths of a millimetre; a raster is its width,  *)
(* its height and the runs of blank rows in it.                               *)

TenthsPerMm == 10

margin == 10

MIN_BAND_PX == 2

BLANK_ROW_THRESHOLD == 12

OVERLAP_PX == 60

\* pageDims[0] - 2 * margin
contentW(pageSize) ==
  (IF pageSize = "a4" THEN 2100 ELSE 2159) - 2 * margin * TenthsPerMm

\* pageDims[1] - 2 * margin
contentH(pageSize) ==
  (IF pageSize = "a4" THEN 2970 ELSE 2794) - 2 * margin * TenthsPerMm

\* FOOTER_PADDING_MM + footerLines.length * FOOTER_LINE_HEIGHT_MM, or 0
footerReservedMm(footerLines) ==
  IF footerLines > 0 THEN 25 + footerLines * 35 ELSE 0

imageContentH(r) == contentH(r.pageSize) - footerReservedMm(r.footerLines)

\* contentHPx = imageContentH * canvas.width / contentW, as a fraction
contentHPx(r) == <<imageContentH(r) * r.width, contentW(r.pageSize)>>

\* Math.round(contentHPx)
RoundedContentHPx(r) == MathRound(contentHPx(r)[1], contentHPx(r)[2])

\* Math.ceil(scaledHeight / imageContentH)
pagesNeeded(r) ==
  MathCeil(r.height * contentW(r.pageSize), r.width * imageContentH(r))

\* Step 1: Math.min(Math.round(sourceEnd in rows), canvas.height)
nominalEndY(r, pg) ==
  LET sourceEnd == RatMin(<<(pg + 1) * contentHPx(r)[1], contentHPx(r)[2]>>,
                          <<r.height, 1>>)
  IN  Min(MathRound(sourceEnd[1], sourceEnd[2]), r.height)

\* buildRowScores: a row of a blank run scores 0, any other row 255
RowScore(r, row) ==
  IF \E run \in r.blankRuns : run[1] <= row /\ row <= run[2] THEN 0 ELSE 255

IsBlankRow(r, y) == RowScore(r, y) < BLANK_ROW_THRESHOLD

SetMin(S) == CHOOSE x \in S : \A y \in S : x <= y

RECURSIVE BandScan(_, _, _, _, _)
\* The loop of findAllWhitespaceBands from row y on, one run of blank rows
\* at a time: the run opens at the first blank row (bandStart) and closes
\* before the first row after it that is not blank or is past toY.
BandScan(r, y, toY, bands, minBandPx) ==
  LET blank == {row \in y..toY : IsBlankRow(r, row)}
  IN  IF blank = {} THEN bands
      ELSE LET bandStart == SetMin(blank)
               after     == {row \in bandStart..toY : ~IsBlankRow(r, row)}
               bandEnd   == IF after = {} THEN toY ELSE SetMin(after) - 1
               width     == bandEnd - bandStart + 1
           IN  BandScan(r, bandEnd + 1, toY,
                        IF width >= minBandPx
                          THEN Append(bands, [start |-> bandStart,
                                              end |-> bandEnd,
                                              width |-> width])
                          ELSE bands,
                        minBandPx)

\* Variant of findAllWhitespaceBands whose loop stops at toY, so that a run
\* open at the last row is never closed.
findAllWhitespaceBands_NoFlush(r, fromY, toY) ==
  LET bands == BandScan(r, fromY, toY, <<>>, MIN_BAND_PX)
  IN  IF Len(bands) > 0 /\ bands[Len(bands)].end = toY
        THEN SubSeq(bands, 1, Len(bands) - 1) ELSE bands

findAllWhitespaceBands(r, fromY, toY) ==
  BandScan(r, fromY, toY, <<>>, MIN_BAND_PX)

\* twice band.centre
Centre2(band) == band.start + band.end


\* dist > contentHPx * 0.5, with dist2 twice the distance
TooFarAhead(r, dist2) == dist2 * contentHPx(r)[2] > contentHPx(r)[1]

RECURSIVE Pass1(_, _, _, _, _, _, _)
\* Pass 1 from band i on: best is the index of bestBandForPage (0: null) and
\* bestDist2 twice bestDist (-1: Infinity).
Pass1(r, bands, i, cutY, nominal, bestDist2, best) ==
  IF i > Len(bands) THEN best
  ELSE IF bands[i].end <= cutY THEN Pass1(r, bands, i + 1, cutY, nominal, bestDist2, best)
  ELSE IF Centre2(bands[i]) < 2 * nominal
    THEN Pass1(r, bands, i + 1, cutY, nominal, bestDist2, best)
  ELSE LET dist2  == Centre2(bands[i]) - 2 * nominal
           closer == bestDist2 < 0 \/ dist2 < bestDist2
           nd     == IF closer THEN dist2 ELSE bestDist2
           nb     == IF closer THEN i ELSE best
       IN  IF TooFarAhead(r, dist2) THEN nb
           ELSE Pass1(r, bands, i + 1, cutY, nominal, nd, nb)

RECURSIVE Pass2_FirstBehind(_, _, _, _, _, _)
\* Variant of Pass 2 that keeps the first unconsumed band behind the nominal
\* cut instead of the closest.
Pass2_FirstBehind(bands, i, cutY, nominal, bestDist2, best) ==
  IF i > Len(bands) THEN best
  ELSE IF bands[i].end <= cutY
    THEN Pass2_FirstBehind(bands, i + 1, cutY, nominal, bestDist2, best)
  ELSE IF Centre2(bands[i]) >= 2 * nominal
    THEN Pass2_FirstBehind(bands, i + 1, cutY, nominal, bestDist2, best)
  ELSE i

RECURSIVE Pass2(_, _, _, _, _, _)
\* Pass 2 from band i on: the closest unconsumed band behind the nominal cut.
Pass2(bands, i, cutY, nominal, bestDist2, best) ==
  IF i > Len(bands) THEN best
  ELSE IF bands[i].end <= cutY THEN Pass2(bands, i + 1, cutY, nominal, bestDist2, best)
  ELSE IF Centre2(bands[i]) >= 2 * nominal
    THEN Pass2(bands, i + 1, cutY, nominal, bestDist2, best)
  ELSE LET dist2  == 2 * nominal - Centre2(bands[i])
           closer == bestDist2 < 0 \/ dist2 < bestDist2
       IN  Pass2(bands, i + 1, cutY, nominal,
                 IF closer THEN dist2 ELSE bestDist2,
                 IF closer THEN i ELSE best)

\* The try/catch before the page loop: the bands of the whole raster, or
\* null when getImageData throws.
PrecomputeBands(r) ==
  IF r.readable
    THEN [isNull |-> FALSE, bands |-> findAllWhitespaceBands(r, 0, r.height - 1)]
    ELSE NoBands

\* Variant of Step 6 that advances to the start of the consumed band only.
AdvancePastBand_ToStart(band) == band.start + 1

\* Step 6 for a consumed band: bestBandForPage.end + 1
AdvancePastBand(band) == band.end + 1

\* Step 2: the index in allBands of bestBandForPage, 0 for null.
BestBandForPage(r, ab, pg, cutY) ==
  IF (~ab.isNull) /\ pg < pagesNeeded(r) - 1
    THEN LET p1 == Pass1(r, ab.bands, 1, cutY, nominalEndY(r, pg), -1, 0)
         IN  IF p1 # 0 THEN p1
             ELSE Pass2(ab.bands, 1, cutY, nominalEndY(r, pg), -1, 0)
    ELSE 0

\* Variant of the safety guard that never fires.
BelowFivePercent_Never(r, srcH) == FALSE

\* srcH < contentHPx * 0.05
BelowFivePercent(r, srcH) == 20 * srcH * contentHPx(r)[2] < contentHPx(r)[1]

\* Variant of the clamp of Step 3 without its upper limit.
ClampSrcH_NoUpper(r, srcH) == Max(1, srcH)

\* Math.max(1, Math.min(srcH, Math.round(contentHPx)))
ClampSrcH(r, srcH) == Max(1, Min(srcH, RoundedContentHPx(r)))

\* Variant of Step 3 in which an overlap page starts at prevCutY.
OverlapSrcY_NoBackup(cutY) == cutY

\* Step 3 for a page that uses the overlap:
\* prevCutY > 0 ? Math.max(0, prevCutY - OVERLAP_PX) : prevCutY
OverlapSrcY(cutY) == IF cutY > 0 THEN Max(0, cutY - OVERLAP_PX) ELSE cutY

\* Steps 1 to 6 of one iteration of the page loop: the slice drawn and the
\* next prevCutY.
PageSlice(r, ab, pg, cutY) ==
  LET nominal    == nominalEndY(r, pg)
      searched   == (~ab.isNull) /\ pg < pagesNeeded(r) - 1
      best       == BestBandForPage(r, ab, pg, cutY)
      refined0   == IF searched /\ best # 0 THEN ab.bands[best].start ELSE nominal
      useOverlap == searched /\ best = 0
      srcY0      == IF useOverlap THEN OverlapSrcY(cutY) ELSE cutY
      srcH0      == refined0 - srcY0
      raw        == BelowFivePercent(r, srcH0)
      srcY       == IF raw THEN cutY ELSE srcY0
      refinedEndY == IF raw THEN Min(cutY + RoundedContentHPx(r), r.height)
                     ELSE refined0
      band       == IF raw THEN 0 ELSE best
      pass1      == IF searched
                      THEN Pass1(r, ab.bands, 1, cutY, nominal, -1, 0) ELSE 0
  IN  [page |-> pg, srcY |-> srcY, srcH |-> ClampSrcH(r, refinedEndY - srcY),
       nominalEndY |-> nominal, refinedEndY |-> refinedEndY,
       useOverlap |-> useOverlap /\ ~raw, rawAdvance |-> raw, band |-> band,
       searched |-> searched, pass1 |-> pass1, selected |-> best,
       prevCutY |-> cutY,
       nextCutY |-> IF band # 0 THEN AdvancePastBand(ab.bands[band])
                    ELSE refinedEndY]


-----------------------------------------------------------------------------
(* SpecPaginate: one export of a raster through appendCanvasToPagedPdf.    *)

MaxBlankRuns == 2

\* raster widths (one page is about 80 and about 146 rows on A4)
PdfWidths == {55, 100}

PdfHeights == {300, 450, 600}

\* runs of blank rows a raster may contain: <<first row, last row>>
BlankRunCandidates ==
  {<<5, 5>>, <<100, 109>>, <<130, 139>>, <<150, 159>>, <<180, 189>>,
   <<200, 209>>, <<250, 349>>, <<440, 441>>}

BlankRunSets ==
  {rs \in SUBSET BlankRunCandidates : Cardinality(rs) <= MaxBlankRuns}

\* A raster of 1000 rows whose pages are 500 rows high (343 px wide on A4
\* without footer: contentHPx = 277 * 343 / 190 = 500.05), with one run of
\* blank rows, 480 to 490.
RegressionRaster ==
  [width |-> 343, height |-> 1000, pageSize |-> "a4", footerLines |-> 0,
   readable |-> TRUE, blankRuns |-> {<<480, 490>>}]

\* the rasters exported: readable ones with their blank runs, and unreadable
\* ones (getImageData throws)
PdfRasters ==
  {[width |-> w, height |-> h, pageSize |-> ps, footerLines |-> f,
    readable |-> TRUE, blankRuns |-> rs] :
     w \in PdfWidths, h \in PdfHeights, ps \in {"a4", "letter"},
     f \in 0..2, rs \in BlankRunSets}
    \cup
  {[width |-> w, height |-> h, pageSize |-> ps, footerLines |-> 0,
    readable |-> FALSE, blankRuns |-> {}] :
     w \in PdfWidths, h \in PdfHeights, ps \in {"a4", "letter"}}
    \cup {RegressionRaster}

InitPaginate ==
  /\ SwIdle
  /\ StoreIdle
  /\ OffIdle
  /\ PdfIdle
  /\ ExtIdle

\* appendCanvasToPagedPdf up to the page loop: the bands of the whole raster,
\* or null when the raster cannot be read.
PdfStart ==
  /\ pdfPc = "idle"
  /\ \E r \in PdfRasters :
       /\ raster' = r
       /\ allBands' = PrecomputeBands(r)
  /\ page' = 0
  /\ prevCutY' = 0
  /\ slices' = <<>>
  /\ pdfPc' = "paging"
  /\ UNCHANGED <<swVars, storeVars, offVars, extVars>>

\* one iteration of the page loop
PdfPage ==
  /\ pdfPc = "paging"
  /\ page < pagesNeeded(raster)
  /\ LET s == PageSlice(raster, allBands, page, prevCutY)
     IN  /\ slices' = Append(slices, s)
         /\ prevCutY' = s.nextCutY
  /\ page' = page + 1
  /\ UNCHANGED <<raster, allBands, pdfPc, swVars, storeVars, offVars, extVars>>

\* the loop is over: appendCanvasToPagedPdf returns
PdfReturn ==
  /\ pdfPc = "paging"
  /\ page >= pagesNeeded(raster)
  /\ pdfPc' = "done"
  /\ UNCHANGED <<raster, allBands, page, prevCutY, slices,
                 swVars, storeVars, offVars, extVars>>

NextPaginate ==
  \/ PdfStart
  \/ PdfPage
  \/ PdfReturn

SpecPaginate == InitPaginate /\ [][NextPaginate]_vars

\* some slice contains the raster row
RowInSomeSlice(row) ==
  \E k \in DOMAIN slices :
    slices[k].srcY <= row /\ row < slices[k].srcY + slices[k].srcH

\* C3 as stated: once every page is emitted, no run of more than OVERLAP_PX
\* consecutive raster rows is outside every slice, between slices or after
\* the last one.
C3_SlicesCoverRaster ==
  pdfPc = "done" =>
    \A y \in 0..(raster.height - OVERLAP_PX - 1) :
      \E row \in y..(y + OVERLAP_PX) : RowInSomeSlice(row)

\* C4 as stated: the srcY of the slices never decreases from one page to the
\* next.
C4_SrcYNonDecreasing ==
  \A k \in DOMAIN slices :
    k > 1 => slices[k - 1].srcY <= slices[k].srcY

\* C5 as stated: every slice has at least one row and at most contentHPx
\* rows (the rows that fill the image area above the footer reservation).
C5_SliceFitsImageArea ==
  \A k \in DOMAIN slices :
    /\ 1 <= slices[k].srcH
    /\ slices[k].srcH * contentHPx(raster)[2] <= contentHPx(raster)[1]

\* C22: for the raster of 1000 rows with pages of 500 rows and one band at
\* rows 480 to 490, the first page consumes the band, prevCutY advances to
\* 491 and the slice of the second page starts at row 491.
C22_RegressionPageTwoStartsPastBand ==
  (raster = RegressionRaster /\ Len(slices) >= 2) =>
    /\ slices[1].nominalEndY = 500
    /\ slices[1].band # 0
    /\ allBands.bands[slices[1].band].start = 480
    /\ allBands.bands[slices[1].band].end = 490
    /\ slices[1].refinedEndY = 480
    /\ slices[1].nextCutY = 491
    /\ slices[2].prevCutY = 491
    /\ slices[2].srcY = 491

C22_Witness ==
  /\ raster = RegressionRaster
  /\ pdfPc = "done"
  /\ Len(slices) = 2

\* C23 as stated: when the pixel data of the raster cannot be read, the
\* export goes on with no bands, no page consumes a band, every page uses
\* the overlap or the raw-advancement fallback, and every page is emitted.
C23_UnreadableRasterUsesFallback ==
  (pdfPc = "done" /\ ~raster.readable) =>
    /\ allBands.isNull
    /\ Len(slices) = pagesNeeded(raster)
    /\ \A k \in DOMAIN slices :
         /\ slices[k].band = 0
         /\ slices[k].useOverlap \/ slices[k].rawAdvance

\* the unconsumed bands at or after the nominal cut of the k-th page
BandsAhead(k) ==
  {i \in DOMAIN allBands.bands :
     /\ allBands.bands[i].end > slices[k].prevCutY
     /\ Centre2(allBands.bands[i]) >= 2 * slices[k].nominalEndY}

\* the unconsumed bands behind the nominal cut of the k-th page
BandsBehind(k) ==
  {i \in DOMAIN allBands.bands :
     /\ allBands.bands[i].end > slices[k].prevCutY
     /\ Centre2(allBands.bands[i]) < 2 * slices[k].nominalEndY}

\* twice the distance of the centre of band i from the nominal cut of page k
Dist2(k, i) ==
  IF Centre2(allBands.bands[i]) >= 2 * slices[k].nominalEndY
    THEN Centre2(allBands.bands[i]) - 2 * slices[k].nominalEndY
    ELSE 2 * slices[k].nominalEndY - Centre2(allBands.bands[i])

\* the band of S whose centre is closest to the nominal cut of page k
Closest(k, S) == CHOOSE i \in S : \A j \in S : Dist2(k, i) <= Dist2(k, j)

\* C28 as stated: Pass 1 picks the unconsumed band at or after the nominal
\* cut with the smallest distance, and picks none when that distance is more
\* than half of contentHPx.
C28_Pass1PicksClosestWithinHalfPage ==
  \A k \in DOMAIN slices :
    slices[k].searched =>
      IF BandsAhead(k) = {} THEN slices[k].pass1 = 0
      ELSE IF TooFarAhead(raster, Dist2(k, Closest(k, BandsAhead(k))))
        THEN slices[k].pass1 = 0
        ELSE slices[k].pass1 = Closest(k, BandsAhead(k))

\* C29 as stated: Pass 2 runs only when Pass 1 selected no band; it picks
\* the unconsumed band behind the nominal cut whose centre is closest to it,
\* and the page ends at the start of that band.
C29_Original_Pass2PageEndsAtBandStart ==
  \A k \in DOMAIN slices :
    slices[k].searched =>
      /\ slices[k].pass1 # 0 => slices[k].selected = slices[k].pass1
      /\ slices[k].pass1 = 0 =>
           IF BandsBehind(k) = {} THEN slices[k].selected = 0
           ELSE /\ slices[k].selected = Closest(k, BandsBehind(k))
                /\ slices[k].refinedEndY = allBands.bands[slices[k].selected].start

\* C29 amended: as above, but the page ends at the start of the band only
\* when the slice up to it has at least 5% of contentHPx rows; otherwise the
\* band is dropped and the page advances one page height from prevCutY.
C29_Pass2ClosestBehindUnlessFloor ==
  \A k \in DOMAIN slices :
    slices[k].searched =>
      /\ slices[k].pass1 # 0 => slices[k].selected = slices[k].pass1
      /\ slices[k].pass1 = 0 =>
           IF BandsBehind(k) = {} THEN slices[k].selected = 0
           ELSE /\ slices[k].selected = Closest(k, BandsBehind(k))
                /\ IF BelowFivePercent(raster,
                        allBands.bands[slices[k].selected].start - slices[k].prevCutY)
                     THEN /\ slices[k].rawAdvance
                          /\ slices[k].band = 0
                          /\ slices[k].refinedEndY =
                               Min(slices[k].prevCutY + RoundedContentHPx(raster),
                                   raster.height)
                     ELSE /\ slices[k].band = slices[k].selected
                          /\ slices[k].refinedEndY =
                               allBands.bands[slices[k].selected].start

\* a page whose cut Pass 2 selected among several unconsumed bands behind
\* the nominal cut, and which ends at the start of that band
C29_Witness ==
  \E k \in DOMAIN slices :
    /\ slices[k].pass1 = 0
    /\ slices[k].band # 0
    /\ Cardinality(BandsBehind(k)) >= 2
    /\ slices[k].refinedEndY = allBands.bands[slices[k].band].start

\* C30: after a page consumes a band, prevCutY is the row after the end of
\* the band, and no later page consumes that band.
C30_ConsumedBandNeverAgain ==
  \A k \in DOMAIN slices :
    slices[k].band # 0 =>
      /\ slices[k].nextCutY = allBands.bands[slices[k].band].end + 1
      /\ \A j \in DOMAIN slices : j > k => slices[j].band # slices[k].band

\* stricter: no later page even selects the band in Pass 1 or Pass 2
C30_ConsumedBandNeverSelected ==
  \A k \in DOMAIN slices :
    slices[k].band # 0 =>
      \A j \in DOMAIN slices : j > k => slices[j].selected # slices[k].band

C30_Witness ==
  \E k \in DOMAIN slices :
    /\ slices[k].band # 0
    /\ Len(slices) >= k + 2
    /\ \E j \in DOMAIN slices : j > k /\ slices[j].band # 0

-----------------------------------------------------------------------------
(* SpecInject: the content script on one page that is captured repeatedly.  *)
(* The service worker injects the script, sends START_CAPTURE, any number    *)
(* of SCROLL_TO and, in its finally block, CLEANUP; between two captures the *)
(* user scrolls the page.  A message sent to the tab is delivered to every   *)
(* listener registered on the page.                                          *)

\* highest scroll position of the page
MaxScrollY == 3
\* number of times the script is injected into the page
MaxInjections == 3

\* the closure of a freshly run content script (part_003 lines 9-12);
\* fixedElements holds the recorded originalVisibility of the page's fixed
\* element
NewListener ==
  [originalScrollY |-> 0, scrollbarStyle |-> FALSE, fixedElements |-> <<>>]

\* handleStartCapture in one listener's closure
handleStartCapture(l) ==
  [originalScrollY |-> windowScrollY, scrollbarStyle |-> TRUE,
   fixedElements |-> <<elementVisibility>>]

\* handleCleanup in one listener's closure
handleCleanup(l) == [l EXCEPT !.scrollbarStyle = FALSE]

\* the message is delivered to every registered listener
Deliver(action) == [action |-> action, handlers |-> Len(listeners)]

\* the listeners that recorded the fixed element, those that hold a style
\* element
WithFixedElements == {i \in DOMAIN listeners : listeners[i].fixedElements # <<>>}
WithScrollbarStyle == {i \in DOMAIN listeners : listeners[i].scrollbarStyle}

\* the greatest member of a non-empty set of listener indexes
Last(S) == CHOOSE i \in S : \A j \in S : j <= i

\* the content script runs in the page (part_003 lines 6-7, 15)
TabRunsScript ==
  /\ IF fullsnapInjected
       THEN UNCHANGED <<fullsnapInjected, listeners>>
       ELSE /\ fullsnapInjected' = TRUE
            /\ listeners' = Append(listeners, NewListener)
  /\ UNCHANGED <<windowScrollY, handled, elementVisibility, styleElements>>

\* START_CAPTURE reaches the tab: every listener records the scroll position
\* and the fixed element and appends its own scrollbar-hiding style
TabStartCapture ==
  /\ listeners' = [i \in DOMAIN listeners |-> handleStartCapture(listeners[i])]
  /\ styleElements' = styleElements + Len(listeners)
  /\ handled' = Deliver("START_CAPTURE")
  /\ UNCHANGED <<fullsnapInjected, windowScrollY, elementVisibility>>

\* SCROLL_TO reaches the tab: window.scrollTo, then hideFixedElements
TabScrollTo(y) ==
  /\ windowScrollY' = IF Len(listeners) > 0 THEN y ELSE windowScrollY
  /\ elementVisibility' = IF WithFixedElements # {} THEN "hidden"
                          ELSE elementVisibility
  /\ handled' = Deliver("SCROLL_TO")
  /\ UNCHANGED <<fullsnapInjected, listeners, styleElements>>

\* CLEANUP reaches the tab: every listener in turn restores the recorded
\* inline visibility, scrolls to its recorded position, removes the style
\* element it holds and deletes the injection flag
TabCleanup ==
  /\ elementVisibility' =
       IF WithFixedElements # {}
         THEN listeners[Last(WithFixedElements)].fixedElements[1]
         ELSE elementVisibility
  /\ windowScrollY' = IF Len(listeners) > 0
                        THEN listeners[Len(listeners)].originalScrollY
                        ELSE windowScrollY
  /\ styleElements' = styleElements - Cardinality(WithScrollbarStyle)
  /\ listeners' = [i \in DOMAIN listeners |-> handleCleanup(listeners[i])]
  /\ fullsnapInjected' = IF Len(listeners) > 0 THEN FALSE ELSE fullsnapInjected
  /\ handled' = Deliver("CLEANUP")

InitInject ==
  /\ SwIdle
  /\ StoreIdle
  /\ OffIdle
  /\ PdfIdle
  /\ ExtIdle

InjectUnchanged == UNCHANGED <<swVars, storeVars, offVars, pdfVars,
                               thVars, ovVars, vwVars, dlVars, runs, anVars>>

\* chrome.scripting.executeScript runs the content script in the page
ExecuteScript ==
  /\ csPc = "idle"
  /\ Len(listeners) < MaxInjections
  /\ TabRunsScript
  /\ csPc' = "injected"
  /\ InjectUnchanged

SendStartCapture ==
  /\ csPc = "injected"
  /\ TabStartCapture
  /\ csPc' = "capturing"
  /\ InjectUnchanged

SendScrollTo ==
  /\ csPc = "capturing"
  /\ \E y \in 0..MaxScrollY : TabScrollTo(y)
  /\ UNCHANGED csPc
  /\ InjectUnchanged

\* the finally block of captureFullPage, after a success or a failure
SendCleanup ==
  /\ csPc \in {"injected", "capturing"}
  /\ TabCleanup
  /\ csPc' = "idle"
  /\ InjectUnchanged

\* the user scrolls the page between two captures
UserScroll ==
  /\ csPc = "idle"
  /\ \E y \in 0..MaxScrollY : windowScrollY' = y
  /\ UNCHANGED <<fullsnapInjected, listeners, csPc, handled,
                 elementVisibility, styleElements>>
  /\ InjectUnchanged

NextInject ==
  \/ ExecuteScript
  \/ SendStartCapture
  \/ SendScrollTo
  \/ SendCleanup
  \/ UserScroll

SpecInject == InitInject /\ [][NextInject]_vars

\* C26: at most one message listener is registered on the page at any time,
\* and every START_CAPTURE, SCROLL_TO and CLEANUP message sent to the tab is
\* handled by exactly one handler.
C26_OneListenerOneHandler ==
  /\ Len(listeners) <= 1
  /\ handled.action # "none" => handled.handlers = 1

-----------------------------------------------------------------------------
(* SpecThrottle: captureWithRetry called by capture requests that may       *)
(* overlap (handleCapture starts a capture for every request, whether or    *)
(* not another one is running).  Times are in milliseconds; a call of       *)
(* chrome.tabs.captureVisibleTab takes any time and returns or throws.      *)

captureThrottleMs == 550
maxRetries == 5

\* the clock advances in steps of this many milliseconds
ClockStepMs == 50
\* the clock stops this many steps after the first request
MaxClockSteps == 10
\* capture requests that overlap
MaxInvocations == 2

Invocations == 1..MaxInvocations

\* an invocation that is not running: calls and failures count the
\* captureVisibleTab calls of its last run and those that threw, outcome is
\* how that run ended, failedAt and rateLimit describe the last throw
RetryIdle ==
  [pc |-> "idle", attempt |-> 0, wakeAt |-> 0, calls |-> 0, failures |-> 0,
   outcome |-> "none", failedAt |-> 0, rateLimit |-> FALSE]

\* 600 * Math.pow(2, attempt)
RateLimitBackoff(attempt) ==
  600 * (IF attempt = 0 THEN 1 ELSE IF attempt = 1 THEN 2
         ELSE IF attempt = 2 THEN 4 ELSE 8)

\* Variant of the backoff that does not tell rate-limit errors apart.
Backoff_NoRateLimit(isRateLimit, attempt) == 200 * (attempt + 1)

\* the delay before the next attempt
Backoff(isRateLimit, attempt) ==
  IF isRateLimit THEN RateLimitBackoff(attempt) ELSE 200 * (attempt + 1)

\* Variant of the retry test that allows one attempt more.
MayRetry_OneMore(attempt) == attempt < maxRetries

\* attempt < DEFAULTS.maxRetries - 1
MayRetry(attempt) == attempt < maxRetries - 1

\* the last two captureVisibleTab calls: the invocation that made the call
\* and the time of the call
RecordCall(calls, t) ==
  LET call == [by |-> t, at |-> now]
  IN  IF Len(calls) < 2 THEN Append(calls, call) ELSE <<calls[2], call>>

\* requests arrive until this time
Horizon == captureThrottleMs + MaxClockSteps * ClockStepMs

\* Date.now() is far past lastCaptureTime = 0 when the worker starts
InitThrottle ==
  /\ SwIdle
  /\ StoreIdle
  /\ OffIdle
  /\ PdfIdle
  /\ CsIdle
  /\ OvIdle
  /\ VwIdle
  /\ LateIdle
  /\ now = captureThrottleMs
  /\ lastCaptureTime = 0
  /\ tabCalls = <<>>
  /\ retry = [t \in Invocations |-> RetryIdle]

ThrottleUnchanged == UNCHANGED <<swVars, storeVars, offVars, pdfVars,
                                 csVars, ovVars, vwVars, lateVars>>

\* captureWithRetry up to its first await
EnterCaptureWithRetry(t) ==
  /\ retry[t].pc = "idle"
  /\ now <= Horizon
  /\ LET elapsed == now - lastCaptureTime
     IN  retry' = [retry EXCEPT ![t] =
           IF elapsed < captureThrottleMs
             THEN [RetryIdle EXCEPT !.pc = "throttle",
                     !.wakeAt = now + (captureThrottleMs - elapsed)]
             ELSE [RetryIdle EXCEPT !.pc = "attempt"]]
  /\ UNCHANGED <<now, lastCaptureTime, tabCalls>>
  /\ ThrottleUnchanged

\* delay(throttle - elapsed) or delay(backoff) resolves
DelayResolves(t) ==
  /\ retry[t].pc \in {"throttle", "backoff"}
  /\ now >= retry[t].wakeAt
  /\ retry' = [retry EXCEPT ![t].pc = "attempt",
                 ![t].attempt = IF retry[t].pc = "backoff" THEN @ + 1 ELSE @,
                 ![t].wakeAt = 0]
  /\ UNCHANGED <<now, lastCaptureTime, tabCalls>>
  /\ ThrottleUnchanged

\* lastCaptureTime = Date.now(); chrome.tabs.captureVisibleTab(...)
CallCaptureVisibleTab(t) ==
  /\ retry[t].pc = "attempt"
  /\ lastCaptureTime' = now
  /\ tabCalls' = RecordCall(tabCalls, t)
  /\ retry' = [retry EXCEPT ![t].pc = "call", ![t].calls = @ + 1]
  /\ UNCHANGED now
  /\ ThrottleUnchanged

\* the call returns the data URL
CaptureReturns(t) ==
  /\ retry[t].pc = "call"
  /\ retry' = [retry EXCEPT ![t].pc = "idle", ![t].outcome = "result",
                 ![t].attempt = 0, ![t].failedAt = 0, ![t].rateLimit = FALSE]
  /\ UNCHANGED <<now, lastCaptureTime, tabCalls>>
  /\ ThrottleUnchanged

\* the call throws: back off and retry, or rethrow after the last attempt
CaptureThrows(t) ==
  /\ retry[t].pc = "call"
  /\ \E isRateLimit \in BOOLEAN :
       retry' = [retry EXCEPT ![t] =
         IF MayRetry(retry[t].attempt)
           THEN [@ EXCEPT !.pc = "backoff", !.failures = @ + 1,
                          !.failedAt = now, !.rateLimit = isRateLimit,
                          !.wakeAt = now + Backoff(isRateLimit, retry[t].attempt)]
           ELSE [RetryIdle EXCEPT !.outcome = "error", !.calls = retry[t].calls,
                                  !.failures = retry[t].failures + 1]]
  /\ UNCHANGED <<now, lastCaptureTime, tabCalls>>
  /\ ThrottleUnchanged

\* the timers that have not fired
Sleepers ==
  {t \in DOMAIN retry : retry[t].pc \in {"throttle", "backoff"}
                          /\ retry[t].wakeAt > now}

\* time passes, one clock step
Tick ==
  /\ now < Horizon
  /\ now' = now + ClockStepMs
  /\ UNCHANGED <<lastCaptureTime, tabCalls, retry>>
  /\ ThrottleUnchanged

\* time passes until the next timer is due
AdvanceToTimer ==
  /\ Sleepers # {}
  /\ \E t \in Sleepers :
       /\ \A u \in Sleepers : retry[t].wakeAt <= retry[u].wakeAt
       /\ now' = retry[t].wakeAt
  /\ UNCHANGED <<lastCaptureTime, tabCalls, retry>>
  /\ ThrottleUnchanged

NextThrottle ==
  \/ \E t \in DOMAIN retry : EnterCaptureWithRetry(t)
  \/ \E t \in DOMAIN retry : DelayResolves(t)
  \/ \E t \in DOMAIN retry : CallCaptureVisibleTab(t)
  \/ \E t \in DOMAIN retry : CaptureReturns(t)
  \/ \E t \in DOMAIN retry : CaptureThrows(t)
  \/ Tick

SpecThrottle == InitThrottle /\ [][NextThrottle]_vars

\* C25: any two consecutive invocations of captureVisibleTab are at least
\* captureThrottleMs apart, retries and overlapping capture requests
\* included.
C25_CallsThrottleApart ==
  Len(tabCalls) = 2 => tabCalls[2].at - tabCalls[1].at >= captureThrottleMs

\* the same for two consecutive calls made by one invocation
C25_OneRequestCallsThrottleApart ==
  (Len(tabCalls) = 2 /\ tabCalls[1].by = tabCalls[2].by)
    => tabCalls[2].at - tabCalls[1].at >= captureThrottleMs

-----------------------------------------------------------------------------
(* SpecOverlap: capture requests that overlap.  handleCapture calls         *)
(* captureFullPage for every request (a popup message, a keyboard command), *)
(* whether or not an earlier captureFullPage is still running; all of them  *)
(* send their requests to the one offscreen document, which processes each  *)
(* request against its module-level canvas.  STITCH_CONCURRENCY is 1, so an *)
(* invocation awaits the answer to each request before its next step.       *)

NoTask ==
  [pc |-> "idle", metrics |-> NoMetrics, strategy |-> NoStrategy,
   segments |-> <<>>, segmentIndex |-> 0, posIndex |-> 0]

\* the segment invocation t is working on
TaskSegment(t) == tasks[t].segments[tasks[t].segmentIndex + 1]

\* the offscreen document has processed a request of capture t
Processed(t, action) ==
  Append(offLog, [capture |-> t, action |-> action,
                  index |-> tasks[t].segmentIndex])

InitOverlap ==
  /\ SwIdle
  /\ StoreIdle
  /\ OffIdle
  /\ PdfIdle
  /\ CsIdle
  /\ ThIdle
  /\ VwIdle
  /\ LateIdle
  /\ tasks = [t \in Invocations |-> NoTask]
  /\ offLog = <<>>

OverlapUnchanged == UNCHANGED <<swVars, pdfVars, csVars, thVars, vwVars, lateVars>>

\* handleCapture('full') up to the plan computed from START_CAPTURE's answer
OvStartCapture(t) ==
  /\ tasks[t].pc = "idle"
  /\ \E m \in CaptureInputs :
       LET pos   == calculateScrollPositions(m.totalHeight, m.viewportHeight)
           strat == computeCaptureStrategy(m)
       IN  tasks' = [tasks EXCEPT ![t] =
             IF strat.error # ""
               THEN [NoTask EXCEPT !.pc = "failed", !.metrics = m]
               ELSE [pc |-> "prepare", metrics |-> m, strategy |-> strat,
                     segments |-> buildCaptureSegments(pos, m.viewportHeight,
                                    m.totalHeight, strat.viewportsPerSegment),
                     segmentIndex |-> 0, posIndex |-> 0]]
  /\ UNCHANGED <<offLog, offVars, storeVars>>
  /\ OverlapUnchanged

\* PREPARE_CANVAS of invocation t and the offscreen document's answer
OvPrepareCanvas(t) ==
  /\ tasks[t].pc = "prepare"
  /\ \E ctxOk \in BOOLEAN :
       LET r == prepareCanvas(canvas, canvasStrategy,
                              tasks[t].metrics.viewportWidth,
                              TaskSegment(t).height,
                              tasks[t].strategy.effectiveDpr, ctxOk)
       IN  /\ canvas' = r.canvas
           /\ canvasStrategy' = r.canvasStrategy
           /\ tasks' = [tasks EXCEPT ![t].posIndex = 0,
                          ![t].pc = IF r.response = "ok" THEN "stitch"
                                    ELSE "failed"]
  /\ offLog' = Processed(t, "PREPARE_CANVAS")
  /\ UNCHANGED <<stitchLog, storeVars>>
  /\ OverlapUnchanged

\* SCROLL_TO, captureWithRetry and STITCH_VIEWPORT for the next position of
\* invocation t's segment, and the offscreen document's answer
OvStitchViewport(t) ==
  /\ tasks[t].pc = "stitch"
  /\ LET seg     == TaskSegment(t)
         m       == tasks[t].metrics
         i       == tasks[t].posIndex
         yOffset == seg.positions[i + 1] - seg.startY
         isFirst == seg.startPositionIndex + i = 0
         srcH    == MathRound(m.viewportHeight * NativeDpr(m), 10 * Milli)
         ready   == canvas.exists /\ canvas.ctx /\ canvasStrategy.exists
     IN  \E outcome \in {"ok", "load failed"} :
           /\ canvas' = IF ready /\ outcome = "ok"
                          THEN stitchViewport(canvas, canvasStrategy, i + 1,
                                 yOffset, m.viewportHeight, isFirst, srcH)
                          ELSE canvas
           /\ tasks' = [tasks EXCEPT ![t].posIndex = i + 1,
                          ![t].pc = IF ~(ready /\ outcome = "ok") THEN "failed"
                                    ELSE IF i + 1 < Len(seg.positions)
                                      THEN "stitch" ELSE "store"]
  /\ offLog' = Processed(t, "STITCH_VIEWPORT")
  /\ UNCHANGED <<canvasStrategy, stitchLog, storeVars>>
  /\ OverlapUnchanged

\* GET_RESULT_BLOB of invocation t: storeCurrentSegment stores the canvas
\* the offscreen document holds at that moment
OvStoreSegment(t) ==
  /\ tasks[t].pc = "store"
  /\ LET seg == TaskSegment(t)
         rec == [captureId |-> t, index |-> seg.index,
                 width |-> canvas.width, height |-> canvas.height,
                 yStart |-> seg.startY,
                 yEnd |-> IF seg.endY = 0 THEN canvas.height ELSE seg.endY]
     IN  IF canvas.exists /\ canvas.ctx
           THEN /\ storeSegments' = StorePutSegment(storeSegments, rec)
                /\ tasks' = [tasks EXCEPT
                     ![t].segmentIndex = @ + 1,
                     ![t].pc = IF tasks[t].segmentIndex + 1 < Len(tasks[t].segments)
                                 THEN "prepare" ELSE "meta"]
           ELSE /\ tasks' = [tasks EXCEPT ![t].pc = "failed"]
                /\ UNCHANGED storeSegments
  /\ offLog' = Processed(t, "GET_RESULT_BLOB")
  /\ UNCHANGED <<storeCaptures, storePending, offVars>>
  /\ OverlapUnchanged

\* putCaptureMeta and the return of captureFullPage
OvPutCaptureMeta(t) ==
  /\ tasks[t].pc = "meta"
  /\ storeCaptures' = StorePutMeta(storeCaptures,
       [captureId |-> t, mode |-> "full",
        segmentCount |-> Len(tasks[t].segments),
        width |-> MathRound(tasks[t].metrics.viewportWidth
                              * tasks[t].strategy.effectiveDpr, Milli),
        totalHeight |-> MathRound(tasks[t].metrics.totalHeight
                                    * tasks[t].strategy.effectiveDpr, Milli)])
  /\ tasks' = [tasks EXCEPT ![t].pc = "done"]
  /\ UNCHANGED <<offLog, offVars, storeSegments, storePending>>
  /\ OverlapUnchanged

NextOverlap ==
  \/ \E t \in Invocations : OvStartCapture(t)
  \/ \E t \in Invocations : OvPrepareCanvas(t)
  \/ \E t \in Invocations : OvStitchViewport(t)
  \/ \E t \in Invocations : OvStoreSegment(t)
  \/ \E t \in Invocations : OvPutCaptureMeta(t)

SpecOverlap == InitOverlap /\ [][NextOverlap]_vars

\* C21: between the PREPARE_CANVAS and the GET_RESULT_BLOB of a segment of
\* one capture, the offscreen document processes no PREPARE_CANVAS,
\* STITCH_VIEWPORT or GET_RESULT_BLOB of another capture.
C21_SegmentCanvasOneCapture ==
  \A i \in DOMAIN offLog, k \in DOMAIN offLog :
    ( /\ i < k
      /\ offLog[i].action = "PREPARE_CANVAS"
      /\ offLog[k].action = "GET_RESULT_BLOB"
      /\ offLog[i].capture = offLog[k].capture
      /\ offLog[i].index = offLog[k].index )
    => \A j \in (i + 1)..(k - 1) : offLog[j].capture = offLog[i].capture

\* a segment is stored with the size of the canvas prepared for it
C21_StoredSegmentHasOwnSize ==
  \A g \in storeSegments :
    LET seg == tasks[g.captureId].segments[g.index + 1]
        dpr == tasks[g.captureId].strategy.effectiveDpr
    IN  g.height = MathRound(seg.height * dpr, Milli)

-----------------------------------------------------------------------------
(* SpecView: the captures of Spec together with the viewer page, which the  *)
(* capture opens and the user closes and reopens.  The viewer sends         *)
(* GET_PENDING_CAPTURE, GET_CAPTURE_META and reads segment 0; these are the *)
(* only requests about a capture that it makes while loading.               *)

\* readPendingCaptureId: the id it returns and the state it leaves
readPendingCaptureId ==
  IF pendingCaptureId # 0
    THEN [id |-> pendingCaptureId, storePending |-> storePending]
    ELSE IF storePending # 0
      THEN [id |-> storePending, storePending |-> storePending]
      ELSE [id |-> sessionPending, storePending |-> sessionPending]

ViewerUnchanged == UNCHANGED <<pdfVars, csVars, thVars, ovVars, lateVars>>

\* the viewer page opens: loadInitialCapture sends GET_PENDING_CAPTURE
ViewerGetPendingCapture ==
  /\ viewerPc = "closed"
  /\ LET r == readPendingCaptureId
     IN  /\ pendingCaptureId' = r.id
         /\ storePending' = r.storePending
         /\ viewerCaptureId' = r.id
         /\ viewerPc' = IF r.id = 0 THEN "error" ELSE "meta"
  /\ UNCHANGED <<metrics, positions, strategy, segments, swPc, captureId,
                 didInjectContentScript, segmentIndex, posIndex, result,
                 failedStep, storedCount, sessionPending, storeCaptures,
                 storeSegments, offVars>>
  /\ ViewerUnchanged

\* GET_CAPTURE_META for the viewer's capture id
ViewerGetCaptureMeta ==
  /\ viewerPc = "meta"
  /\ viewerPc' = IF MetaStored(viewerCaptureId) THEN "segment" ELSE "error"
  /\ UNCHANGED <<swVars, storeVars, offVars, viewerCaptureId>>
  /\ ViewerUnchanged

\* loadSegment(0): the segment record is read from the store
ViewerLoadSegment ==
  /\ viewerPc = "segment"
  /\ viewerPc' = IF StoredSegments(viewerCaptureId, 0) # {}
                   THEN "loaded" ELSE "error"
  /\ UNCHANGED <<swVars, storeVars, offVars, viewerCaptureId>>
  /\ ViewerUnchanged

\* the user closes the viewer tab
ViewerClose ==
  /\ viewerPc \in {"loaded", "error"}
  /\ viewerPc' = "closed"
  /\ viewerCaptureId' = 0
  /\ UNCHANGED <<swVars, storeVars, offVars>>
  /\ ViewerUnchanged

NextView ==
  \/ Next
  \/ ViewerGetPendingCapture
  \/ ViewerGetCaptureMeta
  \/ ViewerLoadSegment
  \/ ViewerClose

SpecView == Init /\ [][NextView]_vars

\* every step that is possible is eventually taken: the worker's awaits
\* settle and the viewer's requests are answered
SpecViewLive == SpecView /\ WF_vars(NextView)

\* the viewer has loaded capture id
ViewerLoaded(id) == viewerPc = "loaded" /\ viewerCaptureId = id

\* C27: every capture that was stored and loaded by the viewer is eventually
\* removed from the store, metadata and segments.
C27_ViewedCaptureEventuallyDeleted ==
  \A id \in 1..MaxCaptures : ViewerLoaded(id) ~> StoreHoldsNothingOf(id)

-----------------------------------------------------------------------------
(* The paginator's fallbacks, its slices and its page count (SpecPaginate). *)

\* page k searched the bands and neither pass selected one
NoBandFound(k) == slices[k].searched /\ slices[k].selected = 0

\* C31 as stated: on an interior page with band data for which neither pass
\* finds a band, the page is cut at nominalEndY with the fixed overlap: the
\* slice starts OVERLAP_PX rows above prevCutY (not below row 0, and at
\* prevCutY when prevCutY = 0), and prevCutY advances to nominalEndY.
C31_Original_NoBandCutsAtNominal ==
  \A k \in DOMAIN slices :
    NoBandFound(k) =>
      /\ slices[k].refinedEndY = slices[k].nominalEndY
      /\ slices[k].srcY = IF slices[k].prevCutY = 0 THEN 0
                          ELSE Max(0, slices[k].prevCutY - OVERLAP_PX)
      /\ slices[k].nextCutY = slices[k].nominalEndY

\* C31 amended: as above when the slice from the overlap start to
\* nominalEndY has at least 5% of contentHPx rows; otherwise the page is one
\* page height of raw advancement from prevCutY.
C31_NoBandCutsAtNominalUnlessFloor ==
  \A k \in DOMAIN slices :
    NoBandFound(k) =>
      LET cutY   == slices[k].prevCutY
          start  == IF cutY = 0 THEN 0 ELSE Max(0, cutY - OVERLAP_PX)
      IN  IF BelowFivePercent(raster, slices[k].nominalEndY - start)
            THEN /\ slices[k].rawAdvance
                 /\ slices[k].srcY = cutY
                 /\ slices[k].refinedEndY =
                      Min(cutY + RoundedContentHPx(raster), raster.height)
                 /\ slices[k].nextCutY = slices[k].refinedEndY
            ELSE /\ slices[k].useOverlap
                 /\ slices[k].refinedEndY = slices[k].nominalEndY
                 /\ slices[k].srcY = start
                 /\ slices[k].nextCutY = slices[k].nominalEndY

\* a page after the first for which no band was found and which backs up by
\* the overlap
C31_Witness ==
  \E k \in DOMAIN slices :
    /\ NoBandFound(k)
    /\ slices[k].prevCutY > OVERLAP_PX
    /\ slices[k].useOverlap
    /\ slices[k].srcY = slices[k].prevCutY - OVERLAP_PX

\* the slice height Step 3 computes for page k from the chosen cut, before
\* the safety guard
FirstSrcH(k) ==
  LET cutY    == slices[k].prevCutY
      refined == IF slices[k].selected # 0
                   THEN allBands.bands[slices[k].selected].start
                   ELSE slices[k].nominalEndY
      srcY    == IF NoBandFound(k) THEN OverlapSrcY(cutY) ELSE cutY
  IN  refined - srcY

\* h rows are fewer than 5% of the rows of a full page
TinySlice(h) == 20 * h * contentHPx(raster)[2] < contentHPx(raster)[1]

\* the safety floor as Step 3 applies it: a slice below 5% of contentHPx
\* becomes one page height of raw advancement from prevCutY, clipped to the
\* raster, with no band consumed and no overlap
FloorForcesRawAdvance ==
  \A k \in DOMAIN slices :
    TinySlice(FirstSrcH(k)) =>
      /\ slices[k].rawAdvance
      /\ slices[k].srcY = slices[k].prevCutY
      /\ slices[k].refinedEndY =
           Min(slices[k].prevCutY + RoundedContentHPx(raster), raster.height)
      /\ slices[k].band = 0
      /\ ~slices[k].useOverlap
      /\ slices[k].nextCutY = slices[k].refinedEndY

\* C32 as stated: the safety floor forces raw advancement, so no emitted
\* page has fewer rows than 5% of contentHPx while raster rows remain below
\* prevCutY.
C32_Original_NoPageBelowFloor ==
  /\ FloorForcesRawAdvance
  /\ \A k \in DOMAIN slices :
       slices[k].prevCutY < raster.height =>
         ~TinySlice(slices[k].srcH)

\* C32 amended: the safety floor forces raw advancement, so an emitted page
\* has fewer rows than 5% of contentHPx only when it holds every raster row
\* from prevCutY to the end of the raster.
C32_FloorOrAllRemainingRows ==
  /\ FloorForcesRawAdvance
  /\ \A k \in DOMAIN slices :
       slices[k].prevCutY < raster.height =>
         \/ ~TinySlice(slices[k].srcH)
         \/ /\ slices[k].srcY = slices[k].prevCutY
            /\ slices[k].srcH = raster.height - slices[k].prevCutY

\* a page whose band lay within 5% of contentHPx of prevCutY and which
\* advanced a full page instead
C32_Witness ==
  \E k \in DOMAIN slices :
    /\ slices[k].selected # 0
    /\ slices[k].rawAdvance
    /\ slices[k].srcH = RoundedContentHPx(raster)

\* C35 as stated: every slice lies inside the raster, whatever the bands.
C35_SlicesInsideRaster ==
  \A k \in DOMAIN slices :
    /\ 0 <= slices[k].srcY
    /\ slices[k].srcY + slices[k].srcH <= raster.height

\* the same for the pages that start above the raster bottom
C35_SlicesInsideRasterWhileRowsRemain ==
  \A k \in DOMAIN slices :
    slices[k].prevCutY < raster.height =>
      /\ 0 <= slices[k].srcY
      /\ slices[k].srcY + slices[k].srcH <= raster.height

\* C36 as stated: the export ends after exactly pagesNeeded pages whatever
\* the bands, and prevCutY never decreases from one page to the next.
C36_PagesNeededAndCutAdvances ==
  /\ pdfPc = "done" => Len(slices) = pagesNeeded(raster)
  /\ pdfPc = "paging" => Len(slices) <= pagesNeeded(raster)
  /\ \A k \in DOMAIN slices : slices[k].prevCutY <= slices[k].nextCutY

\* the page count alone
C36_ExactlyPagesNeeded ==
  /\ pdfPc = "done" => Len(slices) = pagesNeeded(raster)
  /\ pdfPc = "paging" => Len(slices) <= pagesNeeded(raster)

-----------------------------------------------------------------------------
(* SpecRetry: one invocation of captureWithRetry at a time, followed until  *)
(* it returns or throws; for it the clock also jumps to the next timer.     *)

InitRetry ==
  /\ SwIdle
  /\ StoreIdle
  /\ OffIdle
  /\ PdfIdle
  /\ CsIdle
  /\ OvIdle
  /\ VwIdle
  /\ LateIdle
  /\ now = captureThrottleMs
  /\ lastCaptureTime = 0
  /\ tabCalls = <<>>
  /\ retry = <<RetryIdle>>

NextRetry ==
  \/ NextThrottle
  \/ AdvanceToTimer

SpecRetry == InitRetry /\ [][NextRetry]_vars

\* the steps of invocation t that need no new request
RetryProgress(t) ==
  \/ DelayResolves(t)
  \/ CallCaptureVisibleTab(t)
  \/ CaptureReturns(t)
  \/ CaptureThrows(t)

\* timers fire and the promise of captureVisibleTab settles
SpecRetryLive ==
  SpecRetry /\ WF_vars(RetryProgress(1)) /\ WF_vars(AdvanceToTimer)

\* the backoff the code is to wait after its n-th failed attempt
ExpectedBackoff(rateLimit, n) ==
  IF rateLimit THEN 600 * 2^(n - 1) ELSE 200 * n

AttemptsBounded ==
  \A t \in DOMAIN retry :
    LET r == retry[t]
    IN  /\ r.calls <= maxRetries
        /\ r.failures <= r.calls
        /\ r.calls <= r.failures + 1
        /\ r.pc = "call" => r.calls = r.failures + 1
        /\ r.outcome = "result" => (r.pc = "idle" /\ r.calls = r.failures + 1)
        /\ r.outcome = "error" =>
             (r.pc = "idle" /\ r.calls = maxRetries /\ r.failures = maxRetries)
        /\ r.pc = "backoff" =>
             /\ r.failures < maxRetries
             /\ r.wakeAt = r.failedAt + ExpectedBackoff(r.rateLimit, r.failures)
        /\ (r.pc = "attempt" /\ r.failures > 0) =>
             now >= r.failedAt + ExpectedBackoff(r.rateLimit, r.failures)

\* C34: a call of captureWithRetry makes at most maxRetries attempts, ends
\* with the first attempt that succeeds, waits 600 * 2^attempt ms after a
\* rate-limit failure and 200 * (attempt + 1) ms after another failure
\* before the next attempt, rethrows after the fifth failure, and always
\* ends with a result or an error.
C34_RetryBoundedAndTerminates ==
  /\ []AttemptsBounded
  /\ (retry[1].pc # "idle") ~> (retry[1].pc = "idle")

\* the call that threw after five failed attempts
C34_Witness ==
  /\ retry[1].pc = "idle"
  /\ retry[1].outcome = "error"
  /\ retry[1].calls = maxRetries

-----------------------------------------------------------------------------
(* The bands findAllWhitespaceBands returns for the rasters of SpecPaginate *)
(* (fromY = 0, toY = canvas.height - 1, as its one caller passes).          *)

\* the rows a to b of the raster are all blank
AllBlank(a, b) == \A y \in a..b : RowScore(raster, y) < BLANK_ROW_THRESHOLD

\* row y lies in a run of at least MIN_BAND_PX blank rows
InLongBlankRun(y) ==
  \E a \in Max(0, y - MIN_BAND_PX + 1)..y :
    a + MIN_BAND_PX - 1 <= raster.height - 1 /\ AllBlank(a, a + MIN_BAND_PX - 1)

-----------------------------------------------------------------------------
(* SpecDelete: the captures and the viewer of SpecView, DELETE_CAPTURE      *)
(* requests for captures that exist, and the browser stopping the idle      *)
(* service worker, which loses the worker's module-level variables.         *)

\* readPendingCaptureId on the given in-memory, persisted and session ids:
\* the id it returns and the persisted id it leaves
readPendingCaptureIdFrom(memory, persisted, session) ==
  IF memory # 0
    THEN [id |-> memory, storePending |-> persisted]
    ELSE IF persisted # 0
      THEN [id |-> persisted, storePending |-> persisted]
      ELSE [id |-> session, storePending |-> session]

\* the browser stops the idle service worker: `let pendingCaptureId = null`
\* runs again when it is next started
WorkerRestart ==
  /\ deleteReply = NoReply
  /\ swPc = "idle"
  /\ pendingCaptureId # 0
  /\ pendingCaptureId' = 0
  /\ UNCHANGED <<metrics, positions, strategy, segments, swPc, captureId,
                 didInjectContentScript, segmentIndex, posIndex, result,
                 failedStep, storedCount, sessionPending, storeVars, offVars,
                 pdfVars, extVars>>

\* the DELETE_CAPTURE handler, deleteCapture(id): the store's transaction
\* commits or aborts (the handler then throws), readPendingCaptureId, and
\* setPendingCapture(null) when it returned id: the in-memory id is cleared,
\* the store write is awaited (a failure throws), then the session write (a
\* failure is ignored).  The reply records the request and the state it met.
DeleteCaptureRequest(id) ==
  /\ deleteReply = NoReply
  /\ id <= captureId
  /\ id = captureId => swPc = "idle"
  /\ \E committed \in BOOLEAN, persistOk \in BOOLEAN, sessionOk \in BOOLEAN :
       LET d == StoreDeleteCapture(storeCaptures, storeSegments, storePending, id)
           r == readPendingCaptureIdFrom(pendingCaptureId, d.pending,
                                         sessionPending)
           before == [id |-> id,
                      pending |-> readPendingCaptureId.id,
                      lostMemory |-> pendingCaptureId = 0,
                      captures |-> storeCaptures,
                      segments |-> storeSegments]
       IN  IF ~committed
             THEN /\ deleteReply' = [before EXCEPT !.id = id] @@ [ok |-> FALSE]
                  /\ UNCHANGED <<pendingCaptureId, sessionPending, storeVars>>
             ELSE /\ storeCaptures' = d.captures
                  /\ storeSegments' = d.segments
                  /\ IF r.id = id
                       THEN /\ pendingCaptureId' = 0
                            /\ storePending' = IF persistOk THEN 0
                                               ELSE r.storePending
                            /\ sessionPending' = IF persistOk /\ sessionOk
                                                   THEN 0 ELSE sessionPending
                            /\ deleteReply' = before @@ [ok |-> persistOk]
                       ELSE /\ pendingCaptureId' = r.id
                            /\ storePending' = r.storePending
                            /\ UNCHANGED sessionPending
                            /\ deleteReply' = before @@ [ok |-> TRUE]
  /\ UNCHANGED <<metrics, positions, strategy, segments, swPc, captureId,
                 didInjectContentScript, segmentIndex, posIndex, result,
                 failedStep, storedCount, offVars, pdfVars, csVars, thVars,
                 ovVars, vwVars, clVars, anVars>>

\* the reply reaches the sender
DeleteCaptureReplied ==
  /\ deleteReply # NoReply
  /\ deleteReply' = NoReply
  /\ UNCHANGED <<swVars, storeVars, offVars, pdfVars, csVars, thVars, ovVars,
                 vwVars, clVars, anVars>>

NextDelete ==
  \/ (deleteReply = NoReply /\ NextView)
  \/ \E id \in 1..MaxCaptures : DeleteCaptureRequest(id)
  \/ DeleteCaptureReplied
  \/ WorkerRestart

SpecDelete == Init /\ [][NextDelete]_vars

\* C37: whenever GET_PENDING_CAPTURE returns a captureId the metadata of that
\* capture is in the store, and the pending capture id in memory, in the
\* store and in session storage never names a capture that was discarded by
\* a failed capture or deleted.
C37_PendingNamesStoredCapture ==
  /\ readPendingCaptureId.id # 0 => MetaStored(readPendingCaptureId.id)
  /\ pendingCaptureId # 0 => MetaStored(pendingCaptureId)
  /\ storePending # 0 => MetaStored(storePending)
  /\ sessionPending # 0 => MetaStored(sessionPending)

\* DELETE_CAPTURE(id) has answered {ok: true}
DeleteSucceeded == deleteReply # NoReply /\ deleteReply.ok

\* C38: when DELETE_CAPTURE(id) has succeeded the store holds no metadata and
\* no segment of id, and the metadata and segments of the other captures as
\* before; when id was the pending capture, no pending id is left in memory,
\* in the store or in session storage and GET_PENDING_CAPTURE answers 'No
\* screenshot available', also when the worker had lost its in-memory id;
\* when another capture was pending, it still is.
C38_DeleteRemovesCaptureAndItsPendingId ==
  DeleteSucceeded =>
    LET id == deleteReply.id
    IN  /\ storeCaptures = {c \in deleteReply.captures : c.captureId # id}
        /\ storeSegments = {g \in deleteReply.segments : g.captureId # id}
        /\ deleteReply.pending = id =>
             /\ pendingCaptureId = 0
             /\ storePending = 0
             /\ sessionPending = 0
             /\ readPendingCaptureId.id = 0
        /\ deleteReply.pending \notin {0, id} =>
             readPendingCaptureId.id = deleteReply.pending

\* the frame of DELETE_CAPTURE(id) and what it does when no session write
\* fails: the records of id are removed, those of other captures are kept,
\* and the in-memory and the persisted pending id do not name id
C38_DeleteRemovesRecordsOnly ==
  DeleteSucceeded =>
    LET id == deleteReply.id
    IN  /\ storeCaptures = {c \in deleteReply.captures : c.captureId # id}
        /\ storeSegments = {g \in deleteReply.segments : g.captureId # id}
        /\ pendingCaptureId # id
        /\ storePending # id

-----------------------------------------------------------------------------
(* SpecAnnotate: the undo and redo stacks of one AnnotationEngine under     *)
(* mouse gestures, text inputs, undo, redo and clearAll.  An annotation is  *)
(* its tool and the number of the operation that committed it; history      *)
(* records every operation with the stacks it left.                         *)

\* operations applied to one engine
MaxOps == 5
\* currentPath.length of a draw or highlight gesture at mouseup
MaxPathLength == 2
\* largest drag distance of an arrow or blur gesture, in pixels
MaxDragPx == 6

PathTools == {"draw", "highlight"}
DragTools == {"arrow", "blur"}

\* the engine's stacks
Stacks(a, r) == [actions |-> a, redoStack |-> r]

\* this.actions.push(action); this.redoStack = []
Commit(st, action) == Stacks(Append(st.actions, action), <<>>)

\* _onMouseUp while drawing with `tool`: a path of more than one point, or a
\* drag of more than 5 px, is committed
onMouseUp(st, tool, pathLength, distance, n) ==
  IF tool \in PathTools
    THEN IF pathLength > 1 THEN Commit(st, [tool |-> tool, n |-> n]) ELSE st
    ELSE IF distance > 5 THEN Commit(st, [tool |-> tool, n |-> n]) ELSE st

\* _finishTextInput with an open text input whose trimmed text is empty or not
finishTextInput(st, hasText, n) ==
  IF hasText THEN Commit(st, [tool |-> "text", n |-> n]) ELSE st

undo(st) ==
  IF Len(st.actions) = 0 THEN st
  ELSE Stacks(SubSeq(st.actions, 1, Len(st.actions) - 1),
              Append(st.redoStack, st.actions[Len(st.actions)]))

redo(st) ==
  IF Len(st.redoStack) = 0 THEN st
  ELSE Stacks(Append(st.actions, st.redoStack[Len(st.redoStack)]),
              SubSeq(st.redoStack, 1, Len(st.redoStack) - 1))

clearAll(st) ==
  IF Len(st.actions) = 0 THEN st ELSE Stacks(<<>>, <<>>)

Engine == Stacks(actions, redoStack)

\* the operation is applied and recorded
Apply(op, st) ==
  /\ Len(history) < MaxOps
  /\ actions' = st.actions
  /\ redoStack' = st.redoStack
  /\ history' = Append(history, [op |-> op, actions |-> st.actions,
                                 redoStack |-> st.redoStack])
  /\ UNCHANGED <<swVars, storeVars, offVars, pdfVars, csVars, thVars, ovVars,
                 vwVars, dlVars, clVars>>

InitAnnotate ==
  /\ SwIdle
  /\ StoreIdle
  /\ OffIdle
  /\ PdfIdle
  /\ ExtIdle

MouseUpPath ==
  \E tool \in PathTools, pathLength \in 1..MaxPathLength :
    LET st == onMouseUp(Engine, tool, pathLength, 0, Len(history) + 1)
    IN  Apply(IF st = Engine THEN "none" ELSE "commit", st)

MouseUpDrag ==
  \E tool \in DragTools, distance \in (MaxDragPx - 1)..MaxDragPx :
    LET st == onMouseUp(Engine, tool, 1, distance, Len(history) + 1)
    IN  Apply(IF st = Engine THEN "none" ELSE "commit", st)

FinishTextInput ==
  \E hasText \in BOOLEAN :
    LET st == finishTextInput(Engine, hasText, Len(history) + 1)
    IN  Apply(IF st = Engine THEN "none" ELSE "commit", st)

Undo == Apply("undo", undo(Engine))

Redo == Apply("redo", redo(Engine))

ClearAll == Apply("clearAll", clearAll(Engine))

NextAnnotate ==
  \/ MouseUpPath
  \/ MouseUpDrag
  \/ FinishTextInput
  \/ Undo
  \/ Redo
  \/ ClearAll

SpecAnnotate == InitAnnotate /\ [][NextAnnotate]_vars

\* the stacks before operation i and after it
Before(i) ==
  IF i = 1 THEN Stacks(<<>>, <<>>)
  ELSE Stacks(history[i - 1].actions, history[i - 1].redoStack)

After(i) == Stacks(history[i].actions, history[i].redoStack)

Held(st) == Len(st.actions) + Len(st.redoStack)

\* an undo of an existing action followed at once by redo leaves both stacks
\* as they were, and undo and redo keep the number of annotations held
UndoRedoRoundTrip ==
  /\ \A i \in DOMAIN history :
       history[i].op \in {"undo", "redo"} => Held(After(i)) = Held(Before(i))
  /\ \A i \in DOMAIN history :
       ( /\ i > 1
         /\ history[i - 1].op = "undo"
         /\ history[i].op = "redo"
         /\ Len(Before(i - 1).actions) > 0 )
       => After(i) = Before(i - 1)

\* operation i left an empty redo stack and a redo that follows it changes
\* nothing
EmptiesRedoStack(i) ==
  /\ After(i).redoStack = <<>>
  /\ (i < Len(history) /\ history[i + 1].op = "redo") => After(i + 1) = After(i)

\* C40: undo immediately followed by redo, when there is an action to undo,
\* leaves the actions list and the redo stack as before; undo and redo
\* preserve the number of actions held in the two stacks; committing a new
\* action or clearAll empties the redo stack, so a following redo is a no-op.
C40_UndoRedoAndClearedRedoStack ==
  /\ UndoRedoRoundTrip
  /\ \A i \in DOMAIN history :
       history[i].op \in {"commit", "clearAll"} => EmptiesRedoStack(i)

\* What holds of the engine: the round trip and the count, a commit empties
\* the redo stack, and clearAll empties it when there is an action to clear;
\* with no action on the canvas clearAll leaves the redo stack as it is.
C40_ClearAllKeepsRedoOfEmptyCanvas ==
  /\ UndoRedoRoundTrip
  /\ \A i \in DOMAIN history :
       /\ history[i].op = "commit" => EmptiesRedoStack(i)
       /\ history[i].op = "clearAll" =>
            IF Len(Before(i).actions) > 0 THEN EmptiesRedoStack(i)
            ELSE After(i) = Before(i)

-----------------------------------------------------------------------------
(* SpecCleanup: captureFullPage invocations on one tab, as far as the tab   *)
(* sees them: executeScript, START_CAPTURE, any number of SCROLL_TO, and    *)
(* CLEANUP from the finally block.  handleCapture starts an invocation for  *)
(* every request, so two of them may run one after the other or overlap.    *)

\* captureFullPage invocations on the tab
MaxRuns == 2

\* no scroll position was recorded
NoScroll == 0 - 1

\* the inline visibility the page gives its fixed element
AuthoredVisibility == ""

\* an invocation that has not started: cleanups counts the CLEANUP messages
\* it sent, startScrollY is window.scrollY when its START_CAPTURE was
\* handled, lastSent says that the last message to the tab was its own,
\* alone that no other invocation ran while it did
NewRun ==
  [pc |-> "idle", didInjectContentScript |-> FALSE, cleanups |-> 0,
   startScrollY |-> NoScroll, lastSent |-> FALSE, alone |-> TRUE]

InFlight(r) == runs[r].pc \notin {"idle", "returned"}

InitCleanup ==
  /\ SwIdle
  /\ StoreIdle
  /\ OffIdle
  /\ PdfIdle
  /\ ThIdle
  /\ OvIdle
  /\ VwIdle
  /\ DlIdle
  /\ AnIdle
  /\ fullsnapInjected = FALSE
  /\ listeners = <<>>
  /\ csPc = "idle"
  /\ handled = NoMessage
  /\ windowScrollY \in 0..MaxScrollY
  /\ elementVisibility = AuthoredVisibility
  /\ styleElements = 0
  /\ runs = [r \in 1..MaxRuns |-> NewRun]

CleanupUnchanged == UNCHANGED <<swVars, storeVars, offVars, pdfVars, csPc,
                                thVars, ovVars, vwVars, dlVars, anVars>>

\* invocation r has sent the last message to the tab
Sent(r, run) ==
  [q \in DOMAIN runs |->
     IF q = r THEN [run EXCEPT !.lastSent = TRUE]
     ELSE [runs[q] EXCEPT !.lastSent = FALSE]]

\* captureFullPage starts: executeScript resolves or rejects
RunExecuteScript(r) ==
  /\ runs[r].pc = "idle"
  /\ LET others == \E q \in DOMAIN runs : q # r /\ InFlight(q)
         mark(q, run) == IF others /\ (q = r \/ InFlight(q))
                           THEN [run EXCEPT !.alone = FALSE] ELSE run
     IN  \E ok \in BOOLEAN :
           IF ok
             THEN /\ TabRunsScript
                  /\ runs' = [q \in DOMAIN runs |->
                       mark(q, IF q = r
                                 THEN [runs[r] EXCEPT !.pc = "start",
                                         !.didInjectContentScript = TRUE]
                                 ELSE runs[q])]
             ELSE /\ runs' = [q \in DOMAIN runs |->
                       mark(q, IF q = r THEN [runs[r] EXCEPT !.pc = "finally"]
                               ELSE runs[q])]
                  /\ UNCHANGED <<fullsnapInjected, listeners, windowScrollY,
                                 handled, elementVisibility, styleElements>>
  /\ CleanupUnchanged

\* START_CAPTURE: the tab answers with its metrics, or the request fails
RunStartCapture(r) ==
  /\ runs[r].pc = "start"
  /\ \E ok \in BOOLEAN :
       IF ok
         THEN /\ TabStartCapture
              /\ runs' = Sent(r, [runs[r] EXCEPT !.pc = "capturing",
                                    !.startScrollY = windowScrollY])
         ELSE /\ runs' = [runs EXCEPT ![r].pc = "finally"]
              /\ UNCHANGED <<fullsnapInjected, listeners, windowScrollY,
                             handled, elementVisibility, styleElements>>
  /\ CleanupUnchanged

\* one SCROLL_TO of the segment loop
RunScrollTo(r) ==
  /\ runs[r].pc = "capturing"
  /\ \E y \in 0..MaxScrollY : TabScrollTo(y)
  /\ runs' = Sent(r, runs[r])
  /\ CleanupUnchanged

\* the try block ends: the capture is complete or a step has thrown
RunLeavesTry(r) ==
  /\ runs[r].pc = "capturing"
  /\ runs' = [runs EXCEPT ![r].pc = "finally"]
  /\ UNCHANGED <<fullsnapInjected, listeners, windowScrollY, handled,
                 elementVisibility, styleElements>>
  /\ CleanupUnchanged

\* if (didInjectContentScript) in the finally block
FinallySendsCleanup(run) == run.didInjectContentScript

\* the finally block, then captureFullPage returns
RunFinally(r) ==
  /\ runs[r].pc = "finally"
  /\ IF FinallySendsCleanup(runs[r])
       THEN /\ TabCleanup
            /\ runs' = Sent(r, [runs[r] EXCEPT !.pc = "returned",
                                  !.cleanups = @ + 1])
       ELSE /\ runs' = [runs EXCEPT ![r].pc = "returned"]
            /\ UNCHANGED <<fullsnapInjected, listeners, windowScrollY,
                           handled, elementVisibility, styleElements>>
  /\ CleanupUnchanged

NextCleanup ==
  \E r \in 1..MaxRuns :
    \/ RunExecuteScript(r)
    \/ RunStartCapture(r)
    \/ RunScrollTo(r)
    \/ RunLeavesTry(r)
    \/ RunFinally(r)

SpecCleanup == InitCleanup /\ [][NextCleanup]_vars

\* captureFullPage sends CLEANUP once when the injection succeeded and never
\* otherwise, and has sent it when it returns
CleanupSentOnce ==
  \A r \in DOMAIN runs :
    /\ runs[r].cleanups <= 1
    /\ runs[r].cleanups = 1 => runs[r].didInjectContentScript
    /\ (runs[r].pc = "returned" /\ runs[r].didInjectContentScript)
         => runs[r].cleanups = 1

\* the tab has just handled the CLEANUP of invocation r, whose START_CAPTURE
\* it had handled
CleanupHandled(r) ==
  /\ runs[r].pc = "returned"
  /\ runs[r].lastSent
  /\ handled.action = "CLEANUP"
  /\ runs[r].startScrollY # NoScroll

\* the page is as it was when invocation r sent START_CAPTURE
PageRestored(r) ==
  /\ windowScrollY = runs[r].startScrollY
  /\ elementVisibility = AuthoredVisibility
  /\ styleElements = 0

\* C39: whenever the injection succeeded captureFullPage sends CLEANUP
\* exactly once before it returns, after a success and after every failure;
\* handling CLEANUP restores the scroll position recorded at START_CAPTURE
\* and the inline visibility of the elements hidden during the capture, and
\* removes the scrollbar-hiding style.
C39_CleanupOnceAndPageRestored ==
  /\ CleanupSentOnce
  /\ \A r \in DOMAIN runs : CleanupHandled(r) => PageRestored(r)

\* What holds: CLEANUP is sent exactly once, and it restores the page for
\* every invocation during which no other invocation worked on the tab.
C39_PageRestoredWhenAlone ==
  /\ CleanupSentOnce
  /\ \A r \in DOMAIN runs :
       (CleanupHandled(r) /\ runs[r].alone) => PageRestored(r)

====
